---- MODULE Spec2Model ----
(***************************************************************************)
(* Model of the Adalytix chat endpoint (POST /api/snowflake): the request  *)
(* handler with its connect / execute / destroy callbacks, and the pure    *)
(* functions mapMessageToQuery, transformToChartData and                   *)
(* createResponseMessage it calls.                                         *)
(*                                                                         *)
(* Texts that the code matches by substring (user messages, keywords) are  *)
(* sequences of one-character strings; texts that are only produced or     *)
(* compared whole (SQL, error texts, summaries, cell values) are strings.  *)
(***************************************************************************)
EXTENDS Integers, Sequences, FiniteSets, TLC

\* ------------------------------------------------------------------------
\* JavaScript values
\* ------------------------------------------------------------------------

\* An optional value: Undefined, or Def(x) for a defined x.
Undefined == <<>>
Def(x) == <<x>>

\* JSON values of the request body.  s is the text of a string, as characters.
JNull == [t |-> "null", b |-> FALSE, n |-> 0, s |-> <<>>]
JBool(b) == [t |-> "bool", b |-> b, n |-> 0, s |-> <<>>]
JNum(n) == [t |-> "num", b |-> FALSE, n |-> n, s |-> <<>>]
JStr(s) == [t |-> "str", b |-> FALSE, n |-> 0, s |-> s]
JArr == [t |-> "arr", b |-> FALSE, n |-> 0, s |-> <<>>]

\* JavaScript truthiness of an optional JSON value (the `!x` tests).
Truthy(ov) ==
  IF ov = Undefined THEN FALSE
  ELSE LET v == ov[1] IN
       CASE v.t = "null" -> FALSE
         [] v.t = "bool" -> v.b
         [] v.t = "num"  -> v.n # 0
         [] v.t = "str"  -> v.s # <<>>
         [] OTHER        -> TRUE

\* String.prototype.toLowerCase on the letters A-Z.
UpperLetters == <<"A","B","C","D","E","F","G","H","I","J","K","L","M",
                  "N","O","P","Q","R","S","T","U","V","W","X","Y","Z">>
LowerLetters == <<"a","b","c","d","e","f","g","h","i","j","k","l","m",
                  "n","o","p","q","r","s","t","u","v","w","x","y","z">>
toLowerCase(s) ==
  [i \in 1..Len(s) |->
     IF \E j \in 1..26 : UpperLetters[j] = s[i]
     THEN LowerLetters[CHOOSE j \in 1..26 : UpperLetters[j] = s[i]]
     ELSE s[i]]

\* String.prototype.includes: k occurs in s as a contiguous substring.
includes(s, k) ==
  \E i \in 1..(Len(s) - Len(k) + 1) : SubSeq(s, i, i + Len(k) - 1) = k

\* ------------------------------------------------------------------------
\* mapMessageToQuery
\* ------------------------------------------------------------------------

SqlHighRoi == "SELECT * FROM SNOWFLAKEHACKATHON.PUBLIC.MARKETING_CAMPAIGN WHERE roi > 50 ORDER BY roi DESC LIMIT 50;"
SqlConversion == "SELECT * FROM SNOWFLAKEHACKATHON.PUBLIC.MARKETING_CAMPAIGN ORDER BY conversion_rate DESC LIMIT 50;"
SqlCost == "SELECT * FROM SNOWFLAKEHACKATHON.PUBLIC.MARKETING_CAMPAIGN ORDER BY acquisition_cost ASC LIMIT 50;"
SqlSocialMedia == "SELECT * FROM SNOWFLAKEHACKATHON.PUBLIC.MARKETING_CAMPAIGN WHERE channel_used = 'Social Media' LIMIT 100;"
SqlEmail_Lowercase == "SELECT * FROM SNOWFLAKEHACKATHON.PUBLIC.MARKETING_CAMPAIGN WHERE channel_used = 'email' LIMIT 100;"
SqlEmail == "SELECT * FROM SNOWFLAKEHACKATHON.PUBLIC.MARKETING_CAMPAIGN WHERE channel_used = 'Email' LIMIT 100;"
SqlSearch == "SELECT * FROM SNOWFLAKEHACKATHON.PUBLIC.MARKETING_CAMPAIGN WHERE channel_used = 'Search' LIMIT 100;"
SqlRecent == "SELECT * FROM SNOWFLAKEHACKATHON.PUBLIC.MARKETING_CAMPAIGN ORDER BY date DESC LIMIT 50;"
SqlDefault == "SELECT * FROM SNOWFLAKEHACKATHON.PUBLIC.MARKETING_CAMPAIGN LIMIT 100;"

\* The statement chosen for a message text (characters).
mapMessageToQuery_CostFirst(message) ==
  LET lowerMessage == toLowerCase(message) IN
  IF /\ includes(lowerMessage, <<"c","o","s","t">>)
     /\ \/ includes(lowerMessage, <<"l","o","w">>)
        \/ includes(lowerMessage, <<"c","h","e","a","p">>)
  THEN SqlCost
  ELSE IF \/ includes(lowerMessage, <<"h","i","g","h"," ","r","o","i">>)
          \/ includes(lowerMessage, <<"b","e","s","t"," ","r","o","i">>)
          \/ includes(lowerMessage, <<"t","o","p"," ","r","o","i">>)
  THEN SqlHighRoi
  ELSE IF /\ includes(lowerMessage, <<"c","o","n","v","e","r","s","i","o","n">>)
          /\ \/ includes(lowerMessage, <<"h","i","g","h">>)
             \/ includes(lowerMessage, <<"b","e","s","t">>)
  THEN SqlConversion
  ELSE IF includes(lowerMessage, <<"s","o","c","i","a","l"," ","m","e","d","i","a">>)
  THEN SqlSocialMedia
  ELSE IF includes(lowerMessage, <<"e","m","a","i","l">>)
  THEN SqlEmail
  ELSE IF \/ includes(lowerMessage, <<"s","e","a","r","c","h">>)
          \/ includes(lowerMessage, <<"g","o","o","g","l","e">>)
  THEN SqlSearch
  ELSE IF \/ includes(lowerMessage, <<"r","e","c","e","n","t">>)
          \/ includes(lowerMessage, <<"l","a","t","e","s","t">>)
  THEN SqlRecent
  ELSE SqlDefault
mapMessageToQuery(message) ==
  LET lowerMessage == toLowerCase(message) IN
  IF \/ includes(lowerMessage, <<"h","i","g","h"," ","r","o","i">>)
     \/ includes(lowerMessage, <<"b","e","s","t"," ","r","o","i">>)
     \/ includes(lowerMessage, <<"t","o","p"," ","r","o","i">>)
  THEN SqlHighRoi
  ELSE IF /\ includes(lowerMessage, <<"c","o","n","v","e","r","s","i","o","n">>)
          /\ \/ includes(lowerMessage, <<"h","i","g","h">>)
             \/ includes(lowerMessage, <<"b","e","s","t">>)
  THEN SqlConversion
  ELSE IF /\ includes(lowerMessage, <<"c","o","s","t">>)
          /\ \/ includes(lowerMessage, <<"l","o","w">>)
             \/ includes(lowerMessage, <<"c","h","e","a","p">>)
  THEN SqlCost
  ELSE IF includes(lowerMessage, <<"s","o","c","i","a","l"," ","m","e","d","i","a">>)
  THEN SqlSocialMedia
  ELSE IF includes(lowerMessage, <<"e","m","a","i","l">>)
  THEN SqlEmail
  ELSE IF \/ includes(lowerMessage, <<"s","e","a","r","c","h">>)
          \/ includes(lowerMessage, <<"g","o","o","g","l","e">>)
  THEN SqlSearch
  ELSE IF \/ includes(lowerMessage, <<"r","e","c","e","n","t">>)
          \/ includes(lowerMessage, <<"l","a","t","e","s","t">>)
  THEN SqlRecent
  ELSE SqlDefault

\* ------------------------------------------------------------------------
\* Rows of a result set
\* ------------------------------------------------------------------------

\* A cell of a row: undefined (what reading an absent column gives), null,
\* a number (integers only) or a string.
CUndef == [t |-> "undef", n |-> 0, s |-> ""]
CNull == [t |-> "null", n |-> 0, s |-> ""]
CNum(n) == [t |-> "num", n |-> n, s |-> ""]
CStr(s) == [t |-> "str", n |-> 0, s |-> s]

\* A row is the sequence of its columns [k |-> name, v |-> cell], in the
\* order Object.keys lists them (no column name of the model is an array
\* index, so that is the order in which the driver filled the row).
Col(k, v) == [k |-> k, v |-> v]
keysOf(row) == [i \in 1..Len(row) |-> row[i].k]
hasKey(row, key) == \E i \in 1..Len(row) : row[i].k = key
\* row[key]
get(row, key) ==
  IF hasKey(row, key)
  THEN row[CHOOSE i \in 1..Len(row) : row[i].k = key].v
  ELSE CUndef

\* The characters of the column names of the model (for the substring test
\* on a column name).
ColumnChars ==
  "roi" :> <<"r","o","i">> @@
  "conversion_rate" :> <<"c","o","n","v","e","r","s","i","o","n","_","r","a","t","e">> @@
  "acquisition_cost" :> <<"a","c","q","u","i","s","i","t","i","o","n","_","c","o","s","t">> @@
  "engagement_score" :> <<"e","n","g","a","g","e","m","e","n","t","_","s","c","o","r","e">> @@
  "channel_used" :> <<"c","h","a","n","n","e","l","_","u","s","e","d">> @@
  "campaign_type" :> <<"c","a","m","p","a","i","g","n","_","t","y","p","e">> @@
  "campaign_id" :> <<"c","a","m","p","a","i","g","n","_","i","d">> @@
  "date" :> <<"d","a","t","e">> @@
  "START_DATE" :> <<"S","T","A","R","T","_","D","A","T","E">> @@
  "clicks" :> <<"c","l","i","c","k","s">>

\* A JavaScript number: NaN or an integer.
NaN == [nan |-> TRUE, v |-> 0]
Int2Num(n) == [nan |-> FALSE, v |-> n]

\* The strings of the model that Number() parses to a number; Number() of
\* any other string is NaN.
NumericStrings == ("" :> 0 @@ "7" :> 7 @@ "12" :> 12)

\* Number(cell)
Number(c) ==
  CASE c.t = "undef" -> NaN
    [] c.t = "null" -> Int2Num(0)
    [] c.t = "num" -> Int2Num(c.n)
    [] OTHER -> IF c.s \in DOMAIN NumericStrings
                THEN Int2Num(NumericStrings[c.s])
                ELSE NaN

\* !cell
falsy(c) ==
  \/ c.t \in {"undef", "null"}
  \/ c.t = "num" /\ c.n = 0
  \/ c.t = "str" /\ c.s = ""

\* String(cell), which is also cell.toString() of a number or a string
String(c) ==
  CASE c.t = "undef" -> "undefined"
    [] c.t = "null" -> "null"
    [] c.t = "num" -> ToString(c.n)
    [] OTHER -> c.s

\* ------------------------------------------------------------------------
\* transformToChartData
\* ------------------------------------------------------------------------

\* row.channel_used || 'Unknown', as the property name it is used as
channelOf(row) ==
  LET c == get(row, "channel_used") IN
  IF falsy(c) THEN "Unknown" ELSE String(c)

\* A property name that is an array index (a canonical non-negative integer);
\* Object.keys and Object.entries list these first, in ascending order.
isIndexKey(name) ==
  /\ name \in DOMAIN NumericStrings
  /\ name # ""
  /\ ToString(NumericStrings[name]) = name
indexOfKey(name) == NumericStrings[name]

\* The distinct elements of a sequence, in the order of first occurrence.
RECURSIVE distinct(_)
distinct(seq) ==
  IF seq = <<>> THEN <<>>
  ELSE LET front == distinct(SubSeq(seq, 1, Len(seq) - 1))
           last == seq[Len(seq)]
       IN IF \E i \in 1..Len(front) : front[i] = last
          THEN front
          ELSE Append(front, last)

\* Index keys in ascending order.
RECURSIVE sortIndexKeys(_)
sortIndexKeys(names) ==
  IF names = {} THEN <<>>
  ELSE LET least == CHOOSE a \in names :
                      \A b \in names : indexOfKey(a) <= indexOfKey(b)
       IN <<least>> \o sortIndexKeys(names \ {least})

\* What an empty object literal already answers for a property name, as the
\* text it turns into when a number is added to it: the properties it
\* inherits from Object.prototype (those a channel name of the model can hit).
InheritedText ==
  "constructor" :> "function Object() { [native code] }" @@
  "toString" :> "function toString() { [native code] }" @@
  "__proto__" :> "[object Object]"

\* Object.keys of the object literal that was filled by assigning the
\* property names of `names` in sequence.  An assignment to __proto__ of a
\* value that is not an object is ignored, so it never becomes a key.
objectKeys(names) ==
  LET isOwn(a) == a # "__proto__"
      d == SelectSeq(distinct(names), isOwn)
      isIdx(a) == isIndexKey(a)
      notIdx(a) == ~isIndexKey(a)
      idx == SelectSeq(d, isIdx)
  IN sortIndexKeys({idx[i] : i \in 1..Len(idx)}) \o SelectSeq(d, notIdx)

\* How many times name occurs in names.
countOf(names, name) == Cardinality({i \in 1..Len(names) : names[i] = name})

\* The text "1" repeated k times.
RECURSIVE ones(_)
ones(k) == IF k = 0 THEN "" ELSE ones(k - 1) \o "1"

\* acc[name] after acc[c] = (acc[c] || 0) + 1 was run, from the empty object
\* literal, for every c of names: the number of occurrences of name, unless
\* the name is inherited: then the first read finds the inherited value and
\* every + 1 appends "1" to its text.
countValue(names, name) ==
  IF name \in DOMAIN InheritedText
  THEN CStr(InheritedText[name] \o ones(countOf(names, name)))
  ELSE CNum(countOf(names, name))

\* The number of rows a bar chart keeps.
ChartLimit == 20

\* row[xAxisKey]?.toString() || 'Unknown'
xLabel(row, xAxisKey) ==
  LET c == get(row, xAxisKey) IN
  IF c.t \in {"undef", "null"} \/ String(c) = "" THEN "Unknown" ELSE String(c)

\* Number(row[yAxisKey]) || 0
yValue(row, yAxisKey) ==
  LET v == Number(get(row, yAxisKey)) IN
  IF v.nan THEN 0 ELSE v.v

\* The pie chart of the rows' channels.  y is a cell: a number, or the text
\* that the count of an inherited name is.
pieChart(rows) ==
  LET channels == [i \in 1..Len(rows) |-> channelOf(rows[i])]
      ks == objectKeys(channels)
  IN [type |-> "pie",
      data |-> [i \in 1..Len(ks) |->
                  [x |-> ks[i], y |-> countValue(channels, ks[i]), label |-> ks[i]]],
      labels |-> ks]

\* The bar chart of the rows over the columns xAxisKey and yAxisKey.
barChart(rows, xAxisKey, yAxisKey) ==
  LET limitedRows == SubSeq(rows, 1, IF Len(rows) < ChartLimit THEN Len(rows) ELSE ChartLimit)
  IN [type |-> "bar",
      data |-> [i \in 1..Len(limitedRows) |->
                  [x |-> xLabel(limitedRows[i], xAxisKey),
                   y |-> CNum(yValue(limitedRows[i], yAxisKey)),
                   label |-> xLabel(limitedRows[i], xAxisKey)]],
      labels |-> [i \in 1..Len(limitedRows) |-> xLabel(limitedRows[i], xAxisKey)]]

\* The metric column the message asks for, or "" when the message asks
\* for the channel pie chart.
metricKey_NoChannel(lowerMessage) ==
  IF includes(lowerMessage, <<"r","o","i">>) THEN "roi"
  ELSE IF includes(lowerMessage, <<"c","o","n","v","e","r","s","i","o","n">>) THEN "conversion_rate"
  ELSE IF includes(lowerMessage, <<"c","o","s","t">>) THEN "acquisition_cost"
  ELSE IF includes(lowerMessage, <<"e","n","g","a","g","e","m","e","n","t">>) THEN "engagement_score"
  ELSE "roi"
metricKey(lowerMessage) ==
  IF includes(lowerMessage, <<"r","o","i">>) THEN "roi"
  ELSE IF includes(lowerMessage, <<"c","o","n","v","e","r","s","i","o","n">>) THEN "conversion_rate"
  ELSE IF includes(lowerMessage, <<"c","o","s","t">>) THEN "acquisition_cost"
  ELSE IF includes(lowerMessage, <<"e","n","g","a","g","e","m","e","n","t">>) THEN "engagement_score"
  ELSE IF includes(lowerMessage, <<"c","h","a","n","n","e","l">>) THEN ""
  ELSE "roi"

\* The chart of a result set: Undefined or Def(chart).
transformToChartData_LastNumeric(rows, userMessage) ==
  IF Len(rows) = 0 THEN Undefined
  ELSE
    LET firstRow == rows[1]
        keys == keysOf(firstRow)
        hasK(k) == \E i \in 1..Len(keys) : keys[i] = k
        lowerMessage == toLowerCase(userMessage)
        selected == metricKey(lowerMessage)
        isNumeric(k) == get(firstRow, k).t = "num"
        numericColumns == SelectSeq(keys, isNumeric)
        isDate(k) == includes(toLowerCase(ColumnChars[k]), <<"d","a","t","e">>)
        dateColumns == SelectSeq(keys, isDate)
        xAxisKey == IF hasK("campaign_type") THEN "campaign_type"
                    ELSE IF dateColumns # <<>> THEN dateColumns[1]
                    ELSE "campaign_id"
    IN IF selected = "" THEN Def(pieChart(rows))
       ELSE IF hasK(selected) THEN Def(barChart(rows, xAxisKey, selected))
       ELSE IF numericColumns # <<>> THEN Def(barChart(rows, xAxisKey, numericColumns[Len(numericColumns)]))
       ELSE Undefined
transformToChartData(rows, userMessage) ==
  IF Len(rows) = 0 THEN Undefined
  ELSE
    LET firstRow == rows[1]
        keys == keysOf(firstRow)
        hasK(k) == \E i \in 1..Len(keys) : keys[i] = k
        lowerMessage == toLowerCase(userMessage)
        selected == metricKey(lowerMessage)
        isNumeric(k) == get(firstRow, k).t = "num"
        numericColumns == SelectSeq(keys, isNumeric)
        isDate(k) == includes(toLowerCase(ColumnChars[k]), <<"d","a","t","e">>)
        dateColumns == SelectSeq(keys, isDate)
        xAxisKey == IF hasK("campaign_type") THEN "campaign_type"
                    ELSE IF dateColumns # <<>> THEN dateColumns[1]
                    ELSE "campaign_id"
    IN IF selected = "" THEN Def(pieChart(rows))
       ELSE IF hasK(selected) THEN Def(barChart(rows, xAxisKey, selected))
       ELSE IF numericColumns # <<>> THEN Def(barChart(rows, xAxisKey, numericColumns[1]))
       ELSE Undefined

\* ------------------------------------------------------------------------
\* createResponseMessage
\* ------------------------------------------------------------------------

\* Number(cell || 0)
numberOr0(c) == IF falsy(c) THEN Int2Num(0) ELSE Number(c)

\* rows.map(r => Number(r[key] || 0)).filter(v => !isNaN(v)), as integers
numericValues_Strict(rows, key) ==
  LET all == [i \in 1..Len(rows) |-> Number(get(rows[i], key))]
      notNaN(v) == ~v.nan
      kept == SelectSeq(all, notNaN)
  IN [i \in 1..Len(kept) |-> kept[i].v]
numericValues(rows, key) ==
  LET all == [i \in 1..Len(rows) |-> numberOr0(get(rows[i], key))]
      notNaN(v) == ~v.nan
      kept == SelectSeq(all, notNaN)
  IN [i \in 1..Len(kept) |-> kept[i].v]

\* values.reduce((a, b) => a + b, 0)
RECURSIVE sumOf(_)
sumOf(values) ==
  IF values = <<>> THEN 0
  ELSE sumOf(SubSeq(values, 1, Len(values) - 1)) + values[Len(values)]

\* Math.max(...values) and Math.min(...values) of a non-empty sequence
maxOf(values) ==
  CHOOSE m \in {values[i] : i \in 1..Len(values)} :
    \A i \in 1..Len(values) : values[i] <= m
minOf(values) ==
  CHOOSE m \in {values[i] : i \in 1..Len(values)} :
    \A i \in 1..Len(values) : values[i] >= m

\* (num / den).toFixed(2) for integers num and den > 0: the quotient rounded
\* to hundredths, halves away from zero (exact for den < 40, where every
\* quotient that lies halfway is a multiple of 1/8 and so a binary fraction).
toFixed2_Truncated(num, den) ==
  LET abs == IF num < 0 THEN 0 - num ELSE num
      h == (100 * abs) \div den
      frac == h % 100
  IN (IF num < 0 THEN "-" ELSE "") \o ToString(h \div 100) \o "."
       \o (IF frac < 10 THEN "0" ELSE "") \o ToString(frac)
toFixed2(num, den) ==
  LET abs == IF num < 0 THEN 0 - num ELSE num
      h == (200 * abs + den) \div (2 * den)
      frac == h % 100
  IN (IF num < 0 THEN "-" ELSE "") \o ToString(h \div 100) \o "."
       \o (IF frac < 10 THEN "0" ELSE "") \o ToString(frac)

\* x.toFixed(2) of a JavaScript number
numToFixed2(x) == IF x.nan THEN "NaN" ELSE toFixed2(x.v, 1)

\* The comparator (a, b) => b.key - a.key of the code's two sorts; a NaN
\* result counts as 0.
cmpDesc(a, b) ==
  IF a.key.nan \/ b.key.nan THEN 0 ELSE b.key.v - a.key.v

\* Array.prototype.sort of V8 on an array shorter than 64 elements: the
\* initial run is found (and reversed when strictly descending), then the
\* remaining elements are placed by binary insertion.
RECURSIVE runEnd(_, _, _)
runEnd(arr, desc, idx) ==
  IF idx > Len(arr) THEN Len(arr)
  ELSE LET order == cmpDesc(arr[idx], arr[idx - 1]) IN
       IF (desc /\ order >= 0) \/ (~desc /\ order < 0) THEN idx - 1
       ELSE runEnd(arr, desc, idx + 1)

RECURSIVE binarySearch(_, _, _, _)
binarySearch(arr, pivot, left, right) ==
  IF left >= right THEN left
  ELSE LET mid == left + ((right - left) \div 2) IN
       IF cmpDesc(pivot, arr[mid]) < 0
       THEN binarySearch(arr, pivot, left, mid)
       ELSE binarySearch(arr, pivot, mid + 1, right)

RECURSIVE binaryInsertionSort(_, _)
binaryInsertionSort(arr, start) ==
  IF start > Len(arr) THEN arr
  ELSE LET pivot == arr[start]
           left == binarySearch(arr, pivot, 1, start)
           placed == SubSeq(arr, 1, left - 1) \o <<pivot>>
                       \o SubSeq(arr, left, start - 1)
                       \o SubSeq(arr, start + 1, Len(arr))
       IN binaryInsertionSort(placed, start + 1)

sortDesc(arr) ==
  IF Len(arr) < 2 THEN arr
  ELSE LET desc == cmpDesc(arr[2], arr[1]) < 0
           run == runEnd(arr, desc, 3)
           made == IF desc
                   THEN [i \in 1..Len(arr) |->
                           IF i <= run THEN arr[run + 1 - i] ELSE arr[i]]
                   ELSE arr
       IN binaryInsertionSort(made, run + 1)

\* The narratives.  The bullet character of the source's templates is
\* written "*" here.
NoDataMessage_Reworded == "No results."
NoDataMessage == "I couldn't find any data matching your query. Please try a different question."

countMessage(rowCount) ==
  "I found " \o ToString(rowCount) \o " marketing campaigns in the database. The chart below shows the distribution of the data."

roiMessage(rowCount, roiValues) ==
  "Based on " \o ToString(rowCount) \o " campaigns:\n* Average ROI: "
    \o toFixed2(sumOf(roiValues), Len(roiValues)) \o "%\n* Highest ROI: "
    \o toFixed2(maxOf(roiValues), 1) \o "%\n* Lowest ROI: "
    \o toFixed2(minOf(roiValues), 1) \o "%\n\nThe chart below visualizes the ROI trends."

conversionMessage(rowCount, conversionRates) ==
  "Conversion rate analysis from " \o ToString(rowCount)
    \o " campaigns:\n* Average conversion rate: "
    \o toFixed2(sumOf(conversionRates), Len(conversionRates))
    \o "%\n* Best performing: " \o toFixed2(maxOf(conversionRates), 1)
    \o "%\n\nSee the chart below for detailed trends."

costMessage(rowCount, costs) ==
  "Cost analysis from " \o ToString(rowCount)
    \o " campaigns:\n* Average acquisition cost: $"
    \o toFixed2(sumOf(costs), Len(costs)) \o "\n* Total cost: $"
    \o toFixed2(sumOf(costs), 1)
    \o "\n\nThe chart shows cost distribution across campaigns."

engagementMessage(rowCount, engagementScores) ==
  "Engagement analysis from " \o ToString(rowCount)
    \o " campaigns:\n* Average engagement score: "
    \o toFixed2(sumOf(engagementScores), Len(engagementScores))
    \o "\n\nThe chart below shows engagement patterns."

channelMessage(rowCount, topChannel, totalChannels) ==
  "Channel analysis from " \o ToString(rowCount)
    \o " campaigns:\n* Most used channel: " \o topChannel.name \o " ("
    \o topChannel.shown \o " campaigns)\n* Total channels: "
    \o ToString(totalChannels) \o "\n\nThe chart shows channel distribution."

topMessage(rowCount, topCampaign) ==
  "Top performing campaign:\n* Campaign: " \o topCampaign.campaign
    \o "\n* ROI: " \o numToFixed2(topCampaign.key) \o "%\n\nAnalyzed "
    \o ToString(rowCount) \o " campaigns. See the chart for comparison."

defaultMessage_Empty(rowCount) == ""
defaultMessage(rowCount) ==
  "I analyzed " \o ToString(rowCount) \o " marketing campaigns. The data includes metrics like ROI, conversion rates, costs, and engagement scores. The chart below visualizes key trends. Try asking specific questions like:\n* \"What's the average ROI?\"\n* \"Which channel performs best?\"\n* \"Show me conversion rates\""

\* Object.entries(channelCounts) of the rows' truthy channel_used values,
\* sorted by count, descending: [name, key (the count as the comparator's
\* subtraction reads it), shown (the count as the template prints it)].
channelEntries(rows) ==
  LET truthyChannel(r) == ~falsy(get(r, "channel_used"))
      withChannel == SelectSeq(rows, truthyChannel)
      channels == [i \in 1..Len(withChannel) |->
                     String(get(withChannel[i], "channel_used"))]
      ks == objectKeys(channels)
  IN sortDesc([i \in 1..Len(ks) |->
                 [name |-> ks[i],
                  key |-> Number(countValue(channels, ks[i])),
                  shown |-> String(countValue(channels, ks[i]))]])

\* The rows as {roi, campaign}, sorted by roi, descending: [campaign, key
\* (the roi)], campaign as the template prints it.
campaignsByRoi(rows) ==
  sortDesc([i \in 1..Len(rows) |->
              [campaign |-> IF falsy(get(rows[i], "campaign_type"))
                            THEN String(get(rows[i], "campaign_id"))
                            ELSE String(get(rows[i], "campaign_type")),
               key |-> numberOr0(get(rows[i], "roi"))]])

\* The summary text of a result set for a message text (characters).
createResponseMessage(rows, userMessage) ==
  LET rowCount == Len(rows)
      lowerMessage == toLowerCase(userMessage)
      has(k) == includes(lowerMessage, k)
      roiValues == numericValues(rows, "roi")
      conversionRates == numericValues(rows, "conversion_rate")
      costs == numericValues(rows, "acquisition_cost")
      engagementScores == numericValues(rows, "engagement_score")
      entries == channelEntries(rows)
      campaigns == campaignsByRoi(rows)
  IN
  IF rowCount = 0 THEN NoDataMessage
  ELSE IF has(<<"h","o","w"," ","m","a","n","y">>) \/ has(<<"c","o","u","n","t">>)
  THEN countMessage(rowCount)
  ELSE IF /\ \/ has(<<"r","o","i">>)
             \/ has(<<"r","e","t","u","r","n"," ","o","n"," ","i","n","v","e","s","t","m","e","n","t">>)
          /\ Len(roiValues) > 0
  THEN roiMessage(rowCount, roiValues)
  ELSE IF /\ \/ has(<<"c","o","n","v","e","r","s","i","o","n">>)
             \/ has(<<"c","o","n","v","e","r","s","i","o","n"," ","r","a","t","e">>)
          /\ Len(conversionRates) > 0
  THEN conversionMessage(rowCount, conversionRates)
  ELSE IF /\ \/ has(<<"c","o","s","t">>)
             \/ has(<<"a","c","q","u","i","s","i","t","i","o","n"," ","c","o","s","t">>)
          /\ Len(costs) > 0
  THEN costMessage(rowCount, costs)
  ELSE IF has(<<"e","n","g","a","g","e","m","e","n","t">>) /\ Len(engagementScores) > 0
  THEN engagementMessage(rowCount, engagementScores)
  ELSE IF /\ has(<<"c","h","a","n","n","e","l">>) \/ has(<<"p","l","a","t","f","o","r","m">>)
          /\ Len(entries) > 0
  THEN channelMessage(rowCount, entries[1], Len(entries))
  ELSE IF /\ \/ has(<<"b","e","s","t">>)
             \/ has(<<"t","o","p">>)
             \/ has(<<"h","i","g","h","e","s","t">>)
          /\ Len(campaigns) > 0
  THEN topMessage(rowCount, campaigns[1])
  ELSE defaultMessage(rowCount)

\* ------------------------------------------------------------------------
\* Inputs of the model
\* ------------------------------------------------------------------------

\* The message texts requests carry.
\* "What's the average ROI?"
MsgAverageRoi ==
  <<"W","h","a","t","'","s"," ","t","h","e"," ","a","v","e","r","a","g","e"," ","R","O","I","?">>
\* "which channel performs best"
MsgChannelBest ==
  <<"w","h","i","c","h"," ","c","h","a","n","n","e","l"," ","p","e","r","f","o","r","m","s"," ","b","e","s","t">>
\* "high roi and low cost"
MsgHighRoiLowCost ==
  <<"h","i","g","h"," ","r","o","i"," ","a","n","d"," ","l","o","w"," ","c","o","s","t">>
\* "hello"
MsgHello ==
  <<"h","e","l","l","o">>
\* "how many email campaigns"
MsgHowManyEmail ==
  <<"h","o","w"," ","m","a","n","y"," ","e","m","a","i","l"," ","c","a","m","p","a","i","g","n","s">>
\* "Best conversion"
MsgBestConversion ==
  <<"B","e","s","t"," ","c","o","n","v","e","r","s","i","o","n">>
\* "top campaigns"
MsgTopCampaigns ==
  <<"t","o","p"," ","c","a","m","p","a","i","g","n","s">>
\* "Which campaigns are cheap? Show acquisition cost"
MsgLowCost ==
  <<"W","h","i","c","h"," ","c","a","m","p","a","i","g","n","s"," ","a","r","e"," ","c","h","e","a","p","?"," ","S","h","o","w"," ","a","c","q","u","i","s","i","t","i","o","n"," ","c","o","s","t">>
\* "engagement by platform"
MsgEngagement ==
  <<"e","n","g","a","g","e","m","e","n","t"," ","b","y"," ","p","l","a","t","f","o","r","m">>

Messages ==
  {MsgAverageRoi, MsgChannelBest, MsgHighRoiLowCost, MsgHello, MsgHowManyEmail,
   MsgBestConversion, MsgTopCampaigns, MsgLowCost, MsgEngagement}

\* The values the `message` field of a request body takes.
MessageValues ==
  {JStr(<<>>), JNull, JNum(0), JNum(42), JBool(TRUE), JArr}
    \cup {JStr(m) : m \in Messages}

\* A request body: text that is not JSON (valid = FALSE), or a JSON value of
\* kind t; an object ("obj") carries an optional `message`.
BodyNotJson == [valid |-> FALSE, t |-> "null", message |-> Undefined]
BodyValue(t) == [valid |-> TRUE, t |-> t, message |-> Undefined]
BodyObject(m) == [valid |-> TRUE, t |-> "obj", message |-> m]
Bodies ==
  {BodyNotJson, BodyValue("null"), BodyValue("num"), BodyValue("arr"),
   BodyObject(Undefined)}
    \cup {BodyObject(Def(v)) : v \in MessageValues}

\* The result sets the warehouse returns.
RowsEmpty == <<>>
RowsScenarioA ==
  << <<Col("roi", CNum(80))>>, <<Col("roi", CNum(20))>>, <<Col("roi", CNum(40))>> >>
RowsScenarioC ==
  << <<Col("channel_used", CStr("Email"))>>,
     <<Col("channel_used", CStr("Email"))>>,
     <<Col("channel_used", CStr("Search"))>> >>
RowsCampaigns ==
  << <<Col("campaign_id", CNum(1)), Col("campaign_type", CStr("Display")),
       Col("channel_used", CStr("Email")), Col("roi", CNum(30)),
       Col("conversion_rate", CNum(4)), Col("acquisition_cost", CNum(120)),
       Col("engagement_score", CNum(7)), Col("date", CStr("2024-01-05"))>>,
     <<Col("campaign_id", CNum(2)), Col("campaign_type", CStr("Influencer")),
       Col("channel_used", CStr("Search")), Col("roi", CNum(75)),
       Col("conversion_rate", CNum(9)), Col("acquisition_cost", CNum(80)),
       Col("engagement_score", CNum(3)), Col("date", CStr("2024-02-11"))>> >>
RowsNoMetrics ==
  << <<Col("campaign_id", CStr("c-1")), Col("START_DATE", CStr("2024-03-01")),
       Col("roi", CStr("n/a"))>>,
     <<Col("campaign_id", CStr("c-2")), Col("START_DATE", CNull),
       Col("roi", CNull)>> >>
RowsNoColumns == << <<Col("campaign_id", CStr("c-1"))>> >>
RowSets ==
  {RowsEmpty, RowsScenarioA, RowsScenarioC, RowsCampaigns, RowsNoMetrics,
   RowsNoColumns}

\* The phrases the generated messages are made of: every keyword one of the
\* three functions looks for, some of them in upper case, and a neutral word;
\* those the classifier looks for and those the two presenters look for.
Phrase ==
  [HighRoi |-> <<"h","i","g","h"," ","r","o","i">>,
   BestRoi |-> <<"b","e","s","t"," ","r","o","i">>,
   TopRoi |-> <<"t","o","p"," ","r","o","i">>,
   Conversion |-> <<"c","o","n","v","e","r","s","i","o","n">>,
   High |-> <<"h","i","g","h">>,
   Best |-> <<"b","e","s","t">>,
   Cost |-> <<"c","o","s","t">>,
   Low |-> <<"l","o","w">>,
   Cheap |-> <<"c","h","e","a","p">>,
   SocialMedia |-> <<"s","o","c","i","a","l"," ","m","e","d","i","a">>,
   Email |-> <<"e","m","a","i","l">>,
   Search |-> <<"s","e","a","r","c","h">>,
   Google |-> <<"g","o","o","g","l","e">>,
   Recent |-> <<"r","e","c","e","n","t">>,
   Latest |-> <<"l","a","t","e","s","t">>,
   Roi |-> <<"r","o","i">>,
   UpperRoi |-> <<"R","O","I">>,
   Engagement |-> <<"e","n","g","a","g","e","m","e","n","t">>,
   Channel |-> <<"c","h","a","n","n","e","l">>,
   UpperChannel |-> <<"C","h","a","n","n","e","l">>,
   Platform |-> <<"p","l","a","t","f","o","r","m">>,
   HowMany |-> <<"h","o","w"," ","m","a","n","y">>,
   Count |-> <<"c","o","u","n","t">>,
   Top |-> <<"t","o","p">>,
   Highest |-> <<"h","i","g","h","e","s","t">>,
   ReturnOnInvestment |-> <<"r","e","t","u","r","n"," ","o","n"," ","i","n","v","e","s","t","m","e","n","t">>,
   Campaigns |-> <<"c","a","m","p","a","i","g","n","s">>,
   MixedSocialMedia |-> <<"S","o","c","i","a","l"," ","M","e","d","i","a">>]
ClassifierVocabulary ==
  {Phrase.HighRoi, Phrase.BestRoi, Phrase.TopRoi, Phrase.Conversion, Phrase.High,
   Phrase.Best, Phrase.Cost, Phrase.Low, Phrase.Cheap, Phrase.SocialMedia,
   Phrase.Email, Phrase.Search, Phrase.Google, Phrase.Recent, Phrase.Latest,
   Phrase.MixedSocialMedia, Phrase.Campaigns}
PresenterVocabulary ==
  {Phrase.Roi, Phrase.UpperRoi, Phrase.Conversion, Phrase.Cost, Phrase.Engagement,
   Phrase.Channel, Phrase.UpperChannel, Phrase.Platform, Phrase.HowMany,
   Phrase.Count, Phrase.Best, Phrase.Top, Phrase.Highest,
   Phrase.ReturnOnInvestment, Phrase.Campaigns}

\* The most phrases a generated message has.
MaxPhrases == 2

\* words.join(' ')
RECURSIVE joined(_)
joined(words) ==
  IF words = <<>> THEN <<>>
  ELSE IF Len(words) = 1 THEN words[1]
  ELSE words[1] \o <<" ">> \o joined(Tail(words))

\* The messages of at most n phrases of a vocabulary (the empty message is
\* one of them).
MessagesOver(vocabulary, n) ==
  {joined(ws) : ws \in UNION {[1..k -> vocabulary] : k \in 0..n}}

\* The messages the query classifier is applied to.
ClassifierMessages == MessagesOver(ClassifierVocabulary, MaxPhrases) \cup Messages

\* The messages the chart projector and the summarizer are applied to with
\* every generated result set: at most one phrase, a phrase followed by
\* "channel", or a question about two metrics.
\* "return on investment and conversion"
MsgReturnAndConversion ==
  <<"r","e","t","u","r","n"," ","o","n"," ","i","n","v","e","s","t","m","e","n","t"," ","a","n","d"," ","c","o","n","v","e","r","s","i","o","n">>
PresenterMessages ==
  MessagesOver(PresenterVocabulary, 1) \cup Messages
    \cup {joined(<<p, Phrase.Channel>>) : p \in PresenterVocabulary}
    \cup {MsgReturnAndConversion}

\* The rows the generated result sets are made of.
RowDisplay ==
  <<Col("campaign_type", CStr("Display")), Col("channel_used", CStr("Email")),
    Col("roi", CNum(80)), Col("conversion_rate", CNum(4)),
    Col("acquisition_cost", CNum(120)), Col("engagement_score", CNum(7))>>
RowVideo ==
  <<Col("campaign_type", CStr("Video")), Col("channel_used", CStr("Search")),
    Col("roi", CNum(20)), Col("conversion_rate", CNum(9)),
    Col("acquisition_cost", CNum(80)), Col("engagement_score", CNum(3))>>
RowSocial ==
  <<Col("channel_used", CStr("Social Media")), Col("roi", CNum(40))>>
RowTextRoi ==
  <<Col("campaign_id", CNum(3)), Col("channel_used", CStr("12")),
    Col("roi", CStr("n/a")), Col("conversion_rate", CNull)>>
RowNumericText ==
  <<Col("campaign_id", CNum(4)), Col("channel_used", CStr("7")),
    Col("roi", CStr("12")), Col("acquisition_cost", CStr(""))>>
RowInherited ==
  <<Col("channel_used", CStr("constructor")), Col("roi", CNum(0 - 10)),
    Col("clicks", CNum(5))>>
RowProto ==
  <<Col("channel_used", CStr("__proto__")), Col("roi", CNum(0))>>
RowBare ==
  <<Col("campaign_id", CStr("c-7"))>>
RowNulls ==
  <<Col("channel_used", CNull), Col("roi", CNull),
    Col("engagement_score", CStr("n/a"))>>
RowChoices ==
  {RowDisplay, RowVideo, RowSocial, RowTextRoi, RowNumericText, RowInherited,
   RowProto, RowBare, RowNulls}

\* The most rows a generated result set has.
MaxRows == 2

\* The result sets of at most n rows.
RowSetsOf(n) == UNION {[1..k -> RowChoices] : k \in 0..n}

\* Result sets longer than a chart may be: one more row than the limit,
\* every row with a channel of its own, and one more campaign than the limit.
RowsManyChannels ==
  [i \in 1..(ChartLimit + 1) |-> <<Col("channel_used", CStr("ch" \o ToString(i)))>>]
RowsManyCampaigns ==
  [i \in 1..(ChartLimit + 1) |->
     <<Col("campaign_id", CNum(i)), Col("roi", CNum(i))>>]

\* The result sets the classifier's messages are presented with, and those
\* every presenter message is presented with.
FewRowSets == {RowsEmpty, RowsCampaigns}
ManyRowSets == RowSetsOf(MaxRows) \cup RowSets \cup {RowsManyChannels, RowsManyCampaigns}

\* The environment variables the handler reads, and the values one may have:
\* unset, empty, or a non-empty text.
EnvVars ==
  {"SNOWFLAKE_ACCOUNT", "SNOWFLAKE_USERNAME", "SNOWFLAKE_PASSWORD",
   "SNOWFLAKE_WAREHOUSE", "SNOWFLAKE_DATABASE", "SNOWFLAKE_SCHEMA",
   "SNOWFLAKE_ROLE"}
EnvValues == {Undefined, Def(""), Def("configured")}

\* What is thrown and what the driver reports.  An exception is the thrown
\* value: an Error with a message text, or a value that is not an Error.
ErrorOf(text) == [isError |-> TRUE, message |-> text]
NotAnError == [isError |-> FALSE, message |-> ""]
TypeErrorReadNull == ErrorOf("Cannot read properties of null (reading 'message')")
DriverErrors ==
  {ErrorOf("Incorrect username or password was specified."),
   ErrorOf("SQL compilation error: Object 'MARKETING_CAMPAIGN' does not exist or not authorized.")}
DriverThrows == DriverErrors \cup {NotAnError}

\* ------------------------------------------------------------------------
\* The chat endpoint
\* ------------------------------------------------------------------------

VARIABLES
  reqs,       \* the requests being served
  env,        \* process.env: variable -> optional text
  body,       \* per request: the body it carries (Undefined until it is read)
  pc,         \* per request: where its handler stands
  message,    \* per request: chatRequest.message (optional JSON value)
  conn,       \* per request: state of the connection the handler created
  config,     \* per request: the options createConnection was given
  sql,        \* per request: the statements handed to connection.execute
  rows,       \* per request: the result set the driver delivered (optional)
  response,   \* per request: what the promise resolved to (optional)
  log,        \* per request: the steps taken, in order
  console,    \* per request: what was written to the server console
  givenMessage,    \* the text the three pure functions are applied to
  givenRows,       \* the result rows the pure functions are applied to
  applied,         \* how far the pure functions have been applied
  returnedQuery,   \* what mapMessageToQuery returned
  returnedChart,   \* what transformToChartData returned (optional)
  returnedMessage, \* what createResponseMessage returned
  messages,        \* chat UI: the turns of the conversation
  inputValue,      \* chat UI: the text of the input field
  isLoading,       \* chat UI: the loading flag
  fetches,         \* chat UI: the bodies of the requests that are in flight
  settled,         \* chat UI: how the last fetch ended (optional)
  lastCall         \* chat UI: what the last call of handleSendMessage did

pureVars == <<givenMessage, givenRows, applied, returnedQuery, returnedChart, returnedMessage>>

uiVars == <<messages, inputValue, isLoading, fetches, settled, lastCall>>

vars == <<reqs, env, body, pc, message, conn, config, sql, rows, response, log, console,
          pureVars, uiVars>>

ErrInvalidFormat == "Invalid request format. Please send a valid JSON body with a message field."
ErrNoMessage == "No message provided. Please include a message in your request."
ErrMissingCredentials == "Missing Snowflake credentials. Please check your .env.local file."
ErrConnect == "Failed to connect to Snowflake. Please check your credentials and try again."
ErrQuery == "Query execution failed. Please try rephrasing your question."
ErrUnexpected == "An unexpected error occurred. Please try again."

DefaultDatabase == "SNOWFLAKEHACKATHON"
DefaultSchema == "PUBLIC"

\* JSON.stringify of an object literal whose properties are optional values:
\* the properties that are undefined are left out.
jsonStringify(obj) ==
  [k \in {f \in DOMAIN obj : obj[f] # Undefined} |-> obj[k][1]]

\* NextResponse.json(obj, {status})
NextResponseJson(obj, status) == [status |-> status, body |-> jsonStringify(obj)]

\* errorResponse, had the literal no `message` property.
errorResponse_NoMessage(text, status) ==
  NextResponseJson([error |-> Def(text)], status)

\* The object literal of an error response.
errorResponse(text, status) ==
  NextResponseJson([message |-> Def(""), error |-> Def(text)], status)

\* successResponse, had the chart been left out of the literal.
successResponse_NoChart(responseMessage, chartData) ==
  NextResponseJson([message |-> Def(responseMessage)], 200)

\* The object literal of the success response (status defaults to 200).
successResponse(responseMessage, chartData) ==
  NextResponseJson([message |-> Def(responseMessage), chartData |-> chartData], 200)

\* resolved, had the handlers shared one resolve function: the call settles
\* every promise that is still pending.
resolved_Shared(r, value) ==
  [q \in reqs |-> IF response[q] = Undefined THEN Def(value) ELSE response[q]]

\* resolve(value) of the request's promise: only the first call settles it.
resolved(r, value) ==
  IF response[r] = Undefined THEN [response EXCEPT ![r] = Def(value)] ELSE response

\* !process.env.X
unset(e, name) == e[name] = Undefined \/ e[name] = Def("")

\* process.env.X || fallback
envOr(e, name, fallback) == IF unset(e, name) THEN fallback ELSE e[name][1]

\* credentialsMissing, had the test forgotten the role.
credentialsMissing_NoRole(e) ==
  \/ unset(e, "SNOWFLAKE_ACCOUNT")
  \/ unset(e, "SNOWFLAKE_USERNAME")
  \/ unset(e, "SNOWFLAKE_PASSWORD")
  \/ unset(e, "SNOWFLAKE_WAREHOUSE")

\* !account || !username || !password || !warehouse || !role
credentialsMissing(e) ==
  \/ unset(e, "SNOWFLAKE_ACCOUNT")
  \/ unset(e, "SNOWFLAKE_USERNAME")
  \/ unset(e, "SNOWFLAKE_PASSWORD")
  \/ unset(e, "SNOWFLAKE_WAREHOUSE")
  \/ unset(e, "SNOWFLAKE_ROLE")

\* The options handed to snowflake.createConnection (optional texts).
connectionOptions(e) ==
  [account |-> e["SNOWFLAKE_ACCOUNT"],
   username |-> e["SNOWFLAKE_USERNAME"],
   password |-> e["SNOWFLAKE_PASSWORD"],
   warehouse |-> e["SNOWFLAKE_WAREHOUSE"],
   database |-> Def(envOr(e, "SNOWFLAKE_DATABASE", DefaultDatabase)),
   schema |-> Def(envOr(e, "SNOWFLAKE_SCHEMA", DefaultSchema)),
   role |-> e["SNOWFLAKE_ROLE"]]

\* The handler's catch block: the response for a caught exception.
catchResponse(error) ==
  errorResponse(IF error.isError THEN error.message ELSE ErrUnexpected, 500)

Init ==
  /\ reqs = {1}
  /\ env \in [EnvVars -> EnvValues]
  /\ body = [r \in reqs |-> Undefined]
  /\ pc = [r \in reqs |-> "received"]
  /\ message = [r \in reqs |-> Undefined]
  /\ conn = [r \in reqs |-> "none"]
  /\ config = [r \in reqs |-> Undefined]
  /\ sql = [r \in reqs |-> <<>>]
  /\ rows = [r \in reqs |-> Undefined]
  /\ response = [r \in reqs |-> Undefined]
  /\ log = [r \in reqs |-> <<>>]
  /\ console = [r \in reqs |-> <<>>]
  /\ givenMessage = <<>>
  /\ givenRows = <<>>
  /\ applied = "none"
  /\ returnedQuery = ""
  /\ returnedChart = Undefined
  /\ returnedMessage = ""
  /\ messages = <<>>
  /\ inputValue = ""
  /\ isLoading = FALSE
  /\ fetches = <<>>
  /\ settled = Undefined
  /\ lastCall = "none"

\* The handler finishes its synchronous part by resolving with value.
finish(r, b, steps, value, written) ==
  /\ body' = [body EXCEPT ![r] = Def(b)]
  /\ pc' = [pc EXCEPT ![r] = "finished"]
  /\ response' = resolved(r, value)
  /\ log' = [log EXCEPT ![r] = @ \o steps \o <<"resolve">>]
  /\ console' = [console EXCEPT ![r] = @ \o written]

\* POST(request), up to the return of connection.connect(...): the body is
\* parsed and checked, the credentials are read and checked, the connection
\* is created and connect is called.  created is what createConnection does:
\* Undefined when it returns a connection, Def(e) when it throws e.
POST(r) ==
  /\ pc[r] = "received"
  /\ \E b \in Bodies, created \in {Undefined} \cup {Def(e) : e \in DriverThrows} :
       IF ~b.valid
       THEN \* request.json() rejects
            /\ finish(r, b, <<"request.json">>, errorResponse(ErrInvalidFormat, 400), <<>>)
            /\ UNCHANGED <<message, conn, config>>
       ELSE IF b.t = "null"
       THEN \* chatRequest.message of null throws; the outer catch answers
            /\ finish(r, b, <<"request.json", "catch">>,
                      catchResponse(TypeErrorReadNull), <<TypeErrorReadNull.message>>)
            /\ UNCHANGED <<message, conn, config>>
       ELSE IF ~Truthy(b.message)
       THEN /\ finish(r, b, <<"request.json", "checkMessage">>,
                      errorResponse(ErrNoMessage, 400), <<>>)
            /\ message' = [message EXCEPT ![r] = b.message]
            /\ UNCHANGED <<conn, config>>
       ELSE IF credentialsMissing(env)
       THEN /\ finish(r, b, <<"request.json", "checkMessage", "checkCredentials">>,
                      errorResponse(ErrMissingCredentials, 500), <<>>)
            /\ message' = [message EXCEPT ![r] = b.message]
            /\ UNCHANGED <<conn, config>>
       ELSE IF created # Undefined
       THEN \* createConnection throws; the outer catch answers
            /\ finish(r, b, <<"request.json", "checkMessage", "checkCredentials",
                              "createConnection", "catch">>,
                      catchResponse(created[1]), <<created[1].message>>)
            /\ message' = [message EXCEPT ![r] = b.message]
            /\ config' = [config EXCEPT ![r] = Def(connectionOptions(env))]
            /\ UNCHANGED conn
       ELSE /\ body' = [body EXCEPT ![r] = Def(b)]
            /\ message' = [message EXCEPT ![r] = b.message]
            /\ config' = [config EXCEPT ![r] = Def(connectionOptions(env))]
            /\ conn' = [conn EXCEPT ![r] = "connecting"]
            /\ pc' = [pc EXCEPT ![r] = "connecting"]
            /\ log' = [log EXCEPT ![r] = @ \o <<"request.json", "checkMessage",
                         "checkCredentials", "createConnection", "connect">>]
            /\ UNCHANGED <<response, console>>
  /\ UNCHANGED <<reqs, env, sql, rows, pureVars, uiVars>>

\* ConnectFailed, had the callback called connect again instead of answering.
ConnectFailed_Retry(r, err) ==
  /\ conn' = [conn EXCEPT ![r] = "connecting"]
  /\ pc' = [pc EXCEPT ![r] = "connecting"]
  /\ log' = [log EXCEPT ![r] = @ \o <<"connectFailed", "connect">>]
  /\ console' = [console EXCEPT ![r] = Append(@, err.message)]
  /\ UNCHANGED <<response, sql>>

\* The connect callback's `if (err)` branch: the failure is written to the
\* console and answered; nothing else is done with the connection.
ConnectFailed(r, err) ==
  /\ conn' = [conn EXCEPT ![r] = "failed"]
  /\ pc' = [pc EXCEPT ![r] = "finished"]
  /\ response' = resolved(r, errorResponse(ErrConnect, 500))
  /\ log' = [log EXCEPT ![r] = @ \o <<"connectFailed", "resolve">>]
  /\ console' = [console EXCEPT ![r] = Append(@, err.message)]
  /\ UNCHANGED sql

\* ConnectSucceeded, had the statement been handed to execute before it was
\* chosen from the message.
ConnectSucceeded_ExecuteFirst(r) ==
  /\ conn' = [conn EXCEPT ![r] = "connected"]
  /\ IF message[r][1].t # "str"
     THEN /\ pc' = [pc EXCEPT ![r] = "uncaught"]
          /\ log' = [log EXCEPT ![r] = @ \o <<"connected", "mapMessageToQuery", "throw">>]
          /\ UNCHANGED <<response, sql, console>>
     ELSE /\ pc' = [pc EXCEPT ![r] = "executing"]
          /\ sql' = [sql EXCEPT ![r] = Append(@, mapMessageToQuery(message[r][1].s))]
          /\ log' = [log EXCEPT ![r] = @ \o <<"connected", "execute", "mapMessageToQuery">>]
          /\ UNCHANGED <<response, console>>

\* The connect callback after a successful connect: the statement is chosen
\* and handed to connection.execute.  mapMessageToQuery calls toLowerCase on
\* the message, which throws when the message is not a string; nothing
\* catches what a callback throws.
ConnectSucceeded(r) ==
  /\ conn' = [conn EXCEPT ![r] = "connected"]
  /\ IF message[r][1].t # "str"
     THEN /\ pc' = [pc EXCEPT ![r] = "uncaught"]
          /\ log' = [log EXCEPT ![r] = @ \o <<"connected", "mapMessageToQuery", "throw">>]
          /\ UNCHANGED <<response, sql, console>>
     ELSE /\ pc' = [pc EXCEPT ![r] = "executing"]
          /\ sql' = [sql EXCEPT ![r] = Append(@, mapMessageToQuery(message[r][1].s))]
          /\ log' = [log EXCEPT ![r] = @ \o <<"connected", "mapMessageToQuery", "execute">>]
          /\ UNCHANGED <<response, console>>

\* The callback of connection.connect, called by the driver with err
\* (Undefined on success).
ConnectCallback(r) ==
  /\ pc[r] = "connecting"
  /\ \E err \in {Undefined} \cup {Def(e) : e \in DriverErrors} :
       IF err # Undefined THEN ConnectFailed(r, err[1]) ELSE ConnectSucceeded(r)
  /\ UNCHANGED <<reqs, env, body, message, config, rows, pureVars, uiVars>>

\* ExecuteFailed, had destroy been called only after the `if (err)` return.
ExecuteFailed_NoDestroy(r, err) ==
  /\ response' = resolved(r, errorResponse(ErrQuery, 500))
  /\ log' = [log EXCEPT ![r] = @ \o <<"executeFailed", "resolve">>]
  /\ console' = [console EXCEPT ![r] = Append(@, err.message)]
  /\ UNCHANGED <<conn, rows>>

\* The complete callback's `if (err)` branch, after destroy was called.
ExecuteFailed(r, err) ==
  /\ conn' = [conn EXCEPT ![r] = "destroying"]
  /\ response' = resolved(r, errorResponse(ErrQuery, 500))
  /\ log' = [log EXCEPT ![r] = @ \o <<"destroy", "executeFailed", "resolve">>]
  /\ console' = [console EXCEPT ![r] = Append(@, err.message)]
  /\ UNCHANGED rows

\* ExecuteSucceeded, had destroy been called after the response was resolved.
ExecuteSucceeded_RespondFirst(r, delivered) ==
  LET snowflakeRows == IF delivered = Undefined THEN <<>> ELSE delivered[1]
      chartData == transformToChartData(snowflakeRows, message[r][1].s)
      responseMessage == createResponseMessage(snowflakeRows, message[r][1].s)
  IN /\ conn' = [conn EXCEPT ![r] = "destroying"]
     /\ rows' = [rows EXCEPT ![r] = Def(snowflakeRows)]
     /\ response' = resolved(r, successResponse(responseMessage, chartData))
     /\ log' = [log EXCEPT ![r] = @ \o <<"transformToChartData",
                  "createResponseMessage", "resolve", "destroy">>]
     /\ UNCHANGED console

\* The complete callback without err, after destroy was called: the rows
\* are projected and summarized and the result is answered.
ExecuteSucceeded(r, delivered) ==
  LET snowflakeRows == IF delivered = Undefined THEN <<>> ELSE delivered[1]
      chartData == transformToChartData(snowflakeRows, message[r][1].s)
      responseMessage == createResponseMessage(snowflakeRows, message[r][1].s)
  IN /\ conn' = [conn EXCEPT ![r] = "destroying"]
     /\ rows' = [rows EXCEPT ![r] = Def(snowflakeRows)]
     /\ response' = resolved(r, successResponse(responseMessage, chartData))
     /\ log' = [log EXCEPT ![r] = @ \o <<"destroy", "transformToChartData",
                  "createResponseMessage", "resolve">>]
     /\ UNCHANGED console

\* The complete callback of connection.execute, called by the driver with
\* err (Undefined on success) and rows (Undefined or a result set).
ExecuteComplete(r) ==
  /\ pc[r] = "executing"
  /\ \E err \in {Undefined} \cup {Def(e) : e \in DriverErrors},
        delivered \in {Undefined} \cup {Def(rs) : rs \in RowSets} :
       /\ err # Undefined => delivered = Undefined
       /\ IF err # Undefined
          THEN ExecuteFailed(r, err[1])
          ELSE ExecuteSucceeded(r, delivered)
  /\ pc' = [pc EXCEPT ![r] = "finished"]
  /\ UNCHANGED <<reqs, env, body, message, config, sql, pureVars, uiVars>>

\* DestroyCallback, had a failed destroy been answered as an error.
DestroyCallback_Overrides(r) ==
  /\ conn[r] = "destroying"
  /\ \E destroyErr \in {Undefined} \cup {Def(e) : e \in DriverErrors} :
       /\ conn' = [conn EXCEPT ![r] =
                     IF destroyErr = Undefined THEN "destroyed" ELSE "destroyFailed"]
       /\ console' = [console EXCEPT ![r] = Append(@,
                        IF destroyErr = Undefined
                        THEN "Connection destroyed successfully"
                        ELSE destroyErr[1].message)]
       /\ response' = IF destroyErr = Undefined THEN response
                      ELSE [response EXCEPT ![r] = Def(errorResponse(ErrUnexpected, 500))]
  /\ UNCHANGED <<reqs, env, body, pc, message, config, sql, rows, log, pureVars, uiVars>>

\* The callback of connection.destroy, called by the driver with destroyErr
\* (Undefined on success): the outcome is only written to the console.
DestroyCallback(r) ==
  /\ conn[r] = "destroying"
  /\ \E destroyErr \in {Undefined} \cup {Def(e) : e \in DriverErrors} :
       /\ conn' = [conn EXCEPT ![r] =
                     IF destroyErr = Undefined THEN "destroyed" ELSE "destroyFailed"]
       /\ console' = [console EXCEPT ![r] = Append(@,
                        IF destroyErr = Undefined
                        THEN "Connection destroyed successfully"
                        ELSE destroyErr[1].message)]
  /\ UNCHANGED <<reqs, env, body, pc, message, config, sql, rows, response, log, pureVars, uiVars>>

Next ==
  \/ \E r \in reqs : POST(r)
  \/ \E r \in reqs : ConnectCallback(r)
  \/ \E r \in reqs : ExecuteComplete(r)
  \/ \E r \in reqs : DestroyCallback(r)

Spec == Init /\ [][Next]_vars

\* ------------------------------------------------------------------------
\* Several requests served at once: the platform runs a handler invocation
\* per request and the driver calls the callbacks back in any order
\* ------------------------------------------------------------------------

\* The environments of the concurrent runs: every variable set, or all but
\* the account.
EnvConfigured == [v \in EnvVars |-> Def("configured")]
ConcurrentEnvs ==
  {EnvConfigured, [EnvConfigured EXCEPT !["SNOWFLAKE_ACCOUNT"] = Undefined]}

\* The requests served at once.
ConcurrentRequests == {1, 2}

ConcurrentInit ==
  /\ reqs = ConcurrentRequests
  /\ env \in ConcurrentEnvs
  /\ body = [r \in reqs |-> Undefined]
  /\ pc = [r \in reqs |-> "received"]
  /\ message = [r \in reqs |-> Undefined]
  /\ conn = [r \in reqs |-> "none"]
  /\ config = [r \in reqs |-> Undefined]
  /\ sql = [r \in reqs |-> <<>>]
  /\ rows = [r \in reqs |-> Undefined]
  /\ response = [r \in reqs |-> Undefined]
  /\ log = [r \in reqs |-> <<>>]
  /\ console = [r \in reqs |-> <<>>]
  /\ givenMessage = <<>>
  /\ givenRows = <<>>
  /\ applied = "none"
  /\ returnedQuery = ""
  /\ returnedChart = Undefined
  /\ returnedMessage = ""
  /\ messages = <<>>
  /\ inputValue = ""
  /\ isLoading = FALSE
  /\ fetches = <<>>
  /\ settled = Undefined
  /\ lastCall = "none"

ConcurrentSpec == ConcurrentInit /\ [][Next]_vars

\* ------------------------------------------------------------------------
\* The three pure functions, applied to generated inputs in the order the
\* endpoint applies them
\* ------------------------------------------------------------------------

PureInit ==
  /\ reqs = {}
  /\ env = [v \in EnvVars |-> Undefined]
  /\ body = <<>>
  /\ pc = <<>>
  /\ message = <<>>
  /\ conn = <<>>
  /\ config = <<>>
  /\ sql = <<>>
  /\ rows = <<>>
  /\ response = <<>>
  /\ log = <<>>
  /\ console = <<>>
  /\ \/ givenMessage \in ClassifierMessages /\ givenRows \in FewRowSets
     \/ givenMessage \in PresenterMessages /\ givenRows \in ManyRowSets
  /\ applied = "none"
  /\ returnedQuery = ""
  /\ returnedChart = Undefined
  /\ returnedMessage = ""
  /\ messages = <<>>
  /\ inputValue = ""
  /\ isLoading = FALSE
  /\ fetches = <<>>
  /\ settled = Undefined
  /\ lastCall = "none"

endpointVars ==
  <<reqs, env, body, pc, message, conn, config, sql, rows, response, log, console>>

\* const sqlQuery = mapMessageToQuery(chatRequest.message)
CallMapMessageToQuery ==
  /\ applied = "none"
  /\ returnedQuery' = mapMessageToQuery(givenMessage)
  /\ applied' = "mapMessageToQuery"
  /\ UNCHANGED <<endpointVars, uiVars, givenMessage, givenRows, returnedChart, returnedMessage>>

\* const chartData = transformToChartData(rows || [], chatRequest.message)
CallTransformToChartData ==
  /\ applied = "mapMessageToQuery"
  /\ returnedChart' = transformToChartData(givenRows, givenMessage)
  /\ applied' = "transformToChartData"
  /\ UNCHANGED <<endpointVars, uiVars, givenMessage, givenRows, returnedQuery, returnedMessage>>

\* const responseMessage = createResponseMessage(rows || [], chatRequest.message)
CallCreateResponseMessage ==
  /\ applied = "transformToChartData"
  /\ returnedMessage' = createResponseMessage(givenRows, givenMessage)
  /\ applied' = "createResponseMessage"
  /\ UNCHANGED <<endpointVars, uiVars, givenMessage, givenRows, returnedQuery, returnedChart>>

PureNext ==
  \/ CallMapMessageToQuery
  \/ CallTransformToChartData
  \/ CallCreateResponseMessage

PureSpec == PureInit /\ [][PureNext]_vars

\* ------------------------------------------------------------------------
\* The chat UI: the input field, handleSendMessage and the fetch it awaits
\* ------------------------------------------------------------------------

\* text.trim() (the white space of the model's texts is the blank)
RECURSIVE trim(_)
trim(text) ==
  IF Len(text) > 0 /\ SubSeq(text, 1, 1) = " "
  THEN trim(SubSeq(text, 2, Len(text)))
  ELSE IF Len(text) > 0 /\ SubSeq(text, Len(text), Len(text)) = " "
  THEN trim(SubSeq(text, 1, Len(text) - 1))
  ELSE text

\* text.includes(part) of two texts
textIncludes(text, part) ==
  \E i \in 1..(Len(text) - Len(part) + 1) : SubSeq(text, i, i + Len(part) - 1) = part

\* What is typed into the input field.
InputTexts == {"", "  ", "average roi", " top campaigns "}

\* The most sends a conversation of the model has.
MaxSends == 2

\* How a fetch ends: it rejects (a TypeError: the network failed), or it
\* resolves to a response with a status and a body that is JSON (json is
\* the parsed value) or is not (json is Undefined, response.json() rejects
\* with a SyntaxError).
FetchRejected == [kind |-> "reject", status |-> 0, json |-> Undefined]
FetchResponded(r) == [kind |-> "response", status |-> r.status, json |-> Def(r.body)]
FetchNotJson(status) == [kind |-> "response", status |-> status, json |-> Undefined]
JsonSyntaxError == "Unexpected token < in JSON at position 0"

\* The responses of the chat endpoint, and those of other servers on the
\* way: a page that is not JSON, and a 200 that carries an error.
EndpointErrors ==
  {errorResponse(ErrInvalidFormat, 400), errorResponse(ErrNoMessage, 400),
   errorResponse(ErrMissingCredentials, 500), errorResponse(ErrConnect, 500),
   errorResponse(ErrQuery, 500), catchResponse(TypeErrorReadNull)}
EndpointSuccesses ==
  {successResponse(createResponseMessage(RowsScenarioC, MsgChannelBest),
                   transformToChartData(RowsScenarioC, MsgChannelBest)),
   successResponse(createResponseMessage(RowsEmpty, MsgHello),
                   transformToChartData(RowsEmpty, MsgHello))}
FetchOutcomes ==
  {FetchRejected, FetchNotJson(404), FetchNotJson(200),
   FetchResponded(NextResponseJson([message |-> Def(""),
                                    error |-> Def("authentication token expired")], 200))}
    \cup {FetchResponded(r) : r \in EndpointErrors \cup EndpointSuccesses}

\* A turn of the conversation (id and timestamp are left out).
ChatMessage(role, content, chart) ==
  [role |-> role, content |-> content, chartData |-> chart]

\* The text the catch block shows for what was thrown: a TypeError, or an
\* Error with a message.  The cross mark U+274C before it is written "[x]".
errorMessage(isTypeError, text) ==
  IF isTypeError
  THEN "Network error: Unable to reach the API. Please check your connection."
  ELSE IF textIncludes(text, "401") \/ textIncludes(text, "authentication")
  THEN "Authentication failed: Please check your Snowflake credentials."
  ELSE IF textIncludes(text, "404")
  THEN "API endpoint not found. Please ensure the service is running."
  ELSE IF textIncludes(text, "500")
  THEN "Server error: The Snowflake service encountered an error."
  ELSE "Error: " \o text
errorAssistantMessage(isTypeError, text) ==
  ChatMessage("assistant", "[x] " \o errorMessage(isTypeError, text), Undefined)

\* The turn handleSendMessage appends when its fetch has ended with outcome.
assistantTurn(outcome) ==
  IF outcome.kind = "reject" THEN errorAssistantMessage(TRUE, "Failed to fetch")
  ELSE IF outcome.status \notin 200..299
  THEN errorAssistantMessage(FALSE, "API request failed with status "
                                      \o ToString(outcome.status))
  ELSE IF outcome.json = Undefined THEN errorAssistantMessage(FALSE, JsonSyntaxError)
  ELSE LET result == outcome.json[1] IN
       IF "error" \in DOMAIN result /\ result.error # ""
       THEN errorAssistantMessage(FALSE, result.error)
       ELSE ChatMessage("assistant", result.message,
                        IF "chartData" \in DOMAIN result
                        THEN Def(result.chartData) ELSE Undefined)

UiInit ==
  /\ reqs = {}
  /\ env = [v \in EnvVars |-> Undefined]
  /\ body = <<>>
  /\ pc = <<>>
  /\ message = <<>>
  /\ conn = <<>>
  /\ config = <<>>
  /\ sql = <<>>
  /\ rows = <<>>
  /\ response = <<>>
  /\ log = <<>>
  /\ console = <<>>
  /\ givenMessage = <<>>
  /\ givenRows = <<>>
  /\ applied = "none"
  /\ returnedQuery = ""
  /\ returnedChart = Undefined
  /\ returnedMessage = ""
  /\ messages = <<>>
  /\ inputValue = ""
  /\ isLoading = FALSE
  /\ fetches = <<>>
  /\ settled = Undefined
  /\ lastCall = "none"

\* onChange of the input field, which is disabled while isLoading.
ChangeInput ==
  /\ ~isLoading
  /\ \E text \in InputTexts : inputValue' = text
  /\ UNCHANGED <<endpointVars, pureVars, messages, isLoading, fetches, settled, lastCall>>

\* handleSendMessage, up to its await of fetch: a call with blank input or
\* while loading returns at once; otherwise the user turn is appended, the
\* input cleared, the loading flag set and the request sent.
handleSendMessage ==
  IF trim(inputValue) = "" \/ isLoading
  THEN /\ lastCall' = "ignored"
       /\ UNCHANGED <<endpointVars, pureVars, messages, inputValue, isLoading,
                      fetches, settled>>
  ELSE /\ Len(messages) < 2 * MaxSends
       /\ messages' = Append(messages, ChatMessage("user", trim(inputValue), Undefined))
       /\ inputValue' = ""
       /\ isLoading' = TRUE
       /\ fetches' = Append(fetches, [message |-> trim(inputValue),
                                      conversationHistory |-> messages])
       /\ settled' = Undefined
       /\ lastCall' = "accepted"
       /\ UNCHANGED <<endpointVars, pureVars>>

\* FetchSettled, had the finally block not reset the loading flag.
FetchSettled_StillLoading ==
  /\ fetches # <<>>
  /\ \E i \in 1..Len(fetches), outcome \in FetchOutcomes :
       /\ fetches' = SubSeq(fetches, 1, i - 1) \o SubSeq(fetches, i + 1, Len(fetches))
       /\ messages' = Append(messages, assistantTurn(outcome))
       /\ settled' = Def(outcome)
       /\ UNCHANGED isLoading
  /\ UNCHANGED <<endpointVars, pureVars, inputValue, lastCall>>

\* The rest of handleSendMessage, run when a fetch in flight has ended: the
\* response is read, the assistant turn or the error turn is appended, and
\* the loading flag is reset.
FetchSettled ==
  /\ fetches # <<>>
  /\ \E i \in 1..Len(fetches), outcome \in FetchOutcomes :
       /\ fetches' = SubSeq(fetches, 1, i - 1) \o SubSeq(fetches, i + 1, Len(fetches))
       /\ messages' = Append(messages, assistantTurn(outcome))
       /\ settled' = Def(outcome)
       /\ isLoading' = FALSE
  /\ UNCHANGED <<endpointVars, pureVars, inputValue, lastCall>>

UiNext ==
  \/ ChangeInput
  \/ handleSendMessage
  \/ FetchSettled

UiSpec == UiInit /\ [][UiNext]_vars

\* ------------------------------------------------------------------------
\* Properties of the chat endpoint
\* ------------------------------------------------------------------------

\* Step ev was taken by the request whose steps are steps.
took(steps, ev) == \E i \in 1..Len(steps) : steps[i] = ev
\* How often step ev was taken.
timesTaken(steps, ev) == Cardinality({i \in 1..Len(steps) : steps[i] = ev})
\* Step a was taken, and before the first step b.
before(steps, a, b) ==
  \E i \in 1..Len(steps) :
    /\ steps[i] = a
    /\ \A j \in 1..i : steps[j] # b

\* The request's handler and callbacks have nothing left to run.
ended(r) == pc[r] \in {"finished", "uncaught"}
answered(r) == response[r] # Undefined
statusOf(r) == response[r][1].status
bodyOf(r) == response[r][1].body

\* C1: a request that has ended has had destroy invoked on every connection
\* it created, whatever the outcome.
C1_EveryConnectionReleased ==
  \A r \in reqs : (ended(r) /\ conn[r] # "none") => took(log[r], "destroy")

\* C2: a request that has ended has produced exactly one response, with an
\* HTTP status; none is left with its promise unresolved.
C2_ExactlyOneResponse ==
  \A r \in reqs :
    ended(r) => /\ answered(r)
                /\ timesTaken(log[r], "resolve") = 1
                /\ statusOf(r) \in {200, 400, 500}

\* C3: once the execute callback of a request has run, on the success as on
\* the failure branch, destroy was invoked before the response was resolved,
\* and both have happened.
C3_ReleaseBeforeResponse ==
  \A r \in reqs :
    (took(log[r], "execute") /\ ended(r)) =>
       /\ answered(r)
       /\ took(log[r], "resolve")
       /\ before(log[r], "destroy", "resolve")
       /\ conn[r] \in {"destroying", "destroyed", "destroyFailed"}

C3_Witness ==
  \E r \in reqs :
    /\ took(log[r], "execute")
    /\ answered(r) /\ statusOf(r) = 200
    /\ conn[r] = "destroyFailed"

\* The request's body is not JSON, or is JSON without a non-empty message.
noMessageIn(b) == ~b.valid \/ b.t # "obj" \/ ~Truthy(b.message)

\* C4: a request whose body is not JSON, or carries no non-empty message
\* (null and the other non-objects included), is answered 400 with message ""
\* and one of the two fixed texts, and no connection is created.
C4_BadRequestIs400 ==
  \A r \in reqs :
    (body[r] # Undefined /\ noMessageIn(body[r][1])) =>
       /\ answered(r)
       /\ statusOf(r) = 400
       /\ bodyOf(r).message = ""
       /\ bodyOf(r).error \in {ErrInvalidFormat, ErrNoMessage}
       /\ conn[r] = "none"
       /\ ~took(log[r], "createConnection")

\* The credentials a connection cannot do without.
RequiredVars ==
  {"SNOWFLAKE_ACCOUNT", "SNOWFLAKE_USERNAME", "SNOWFLAKE_PASSWORD",
   "SNOWFLAKE_WAREHOUSE", "SNOWFLAKE_ROLE"}
someRequiredUnset == \E v \in RequiredVars : env[v] \in {Undefined, Def("")}

\* C5: a request with a message, read while one of account, username,
\* password, warehouse or role is unset, is answered 500 with message "" and
\* the missing-credentials text, without a connection or a statement; and the
\* missing-credentials text is answered in no other case (an unset database
\* or schema does not cause it).
C5_MissingCredentials ==
  \A r \in reqs :
    /\ (body[r] # Undefined /\ ~noMessageIn(body[r][1]) /\ someRequiredUnset) =>
          /\ answered(r)
          /\ statusOf(r) = 500
          /\ DOMAIN bodyOf(r) = {"message", "error"}
          /\ bodyOf(r).message = ""
          /\ bodyOf(r).error = ErrMissingCredentials
          /\ conn[r] = "none"
          /\ ~took(log[r], "createConnection")
          /\ sql[r] = <<>>
    /\ (answered(r) /\ "error" \in DOMAIN bodyOf(r)
          /\ bodyOf(r).error = ErrMissingCredentials) => someRequiredUnset

C5_Witness ==
  \E r \in reqs :
    /\ env["SNOWFLAKE_PASSWORD"] = Undefined
    /\ \A v \in EnvVars \ {"SNOWFLAKE_PASSWORD"} : env[v] = Def("configured")
    /\ answered(r)
    /\ bodyOf(r).error = ErrMissingCredentials

\* C6: a request attempts connect at most once and executes at most one
\* statement; when connect fails the request ends with 500 and the
\* failed-to-connect text, without a statement.
C6_ConnectOnce ==
  \A r \in reqs :
    /\ timesTaken(log[r], "connect") <= 1
    /\ timesTaken(log[r], "execute") <= 1
    /\ Len(sql[r]) <= 1
    /\ took(log[r], "connectFailed") =>
          /\ ended(r)
          /\ answered(r)
          /\ statusOf(r) = 500
          /\ bodyOf(r).message = ""
          /\ bodyOf(r).error = ErrConnect
          /\ sql[r] = <<>>
          /\ ~took(log[r], "execute")

C6_Witness ==
  \E r \in reqs :
    /\ took(log[r], "connectFailed")
    /\ answered(r)
    /\ conn[r] = "failed"

\* C7: when the statement fails the request ends with 500, message "" and
\* the query-failed text, destroy was invoked before that response, and
\* neither the summarizer nor the chart projector ran.
C7_StatementFailure ==
  \A r \in reqs :
    took(log[r], "executeFailed") =>
       /\ answered(r)
       /\ statusOf(r) = 500
       /\ bodyOf(r).message = ""
       /\ bodyOf(r).error = ErrQuery
       /\ before(log[r], "destroy", "resolve")
       /\ conn[r] \in {"destroying", "destroyed", "destroyFailed"}
       /\ ~took(log[r], "createResponseMessage")
       /\ ~took(log[r], "transformToChartData")
       /\ rows[r] = Undefined

C7_Witness ==
  \E r \in reqs :
    /\ took(log[r], "executeFailed")
    /\ answered(r)
    /\ conn[r] = "destroyed"

\* C8: on the success path the response is 200 with a non-empty message,
\* for the empty result set too; it carries the chart exactly when the
\* projector returned one, and never an error.
C8_SuccessResponse ==
  \A r \in reqs :
    rows[r] # Undefined =>
       LET chart == transformToChartData(rows[r][1], message[r][1].s) IN
       /\ answered(r)
       /\ statusOf(r) = 200
       /\ "message" \in DOMAIN bodyOf(r)
       /\ bodyOf(r).message # ""
       /\ ("chartData" \in DOMAIN bodyOf(r)) <=> (chart # Undefined)
       /\ "chartData" \in DOMAIN bodyOf(r) => bodyOf(r).chartData = chart[1]
       /\ "error" \notin DOMAIN bodyOf(r)

C8_Witness ==
  \E r \in reqs :
    /\ rows[r] # Undefined
    /\ rows[r][1] # <<>>
    /\ answered(r)
    /\ "chartData" \notin DOMAIN bodyOf(r)

\* The fixed texts of the endpoint.
GenericErrors ==
  {ErrInvalidFormat, ErrNoMessage, ErrMissingCredentials, ErrConnect,
   ErrQuery, ErrUnexpected}

\* C9: the error text of every failure response is one of the fixed texts,
\* never the text of a driver error or of a caught exception.
C9_OnlyGenericErrors ==
  \A r \in reqs :
    (answered(r) /\ "error" \in DOMAIN bodyOf(r)) =>
       bodyOf(r).error \in GenericErrors

\* C10 as stated: every response carries both `message` and `error`.
C10_BothFieldsAlways ==
  \A r \in reqs :
    answered(r) => {"message", "error"} \subseteq DOMAIN bodyOf(r)

\* C10: every response carries `message`; it carries `error` exactly when
\* it is a failure response (the success response has no `error`).
C10_MessageAlwaysErrorOnFailure ==
  \A r \in reqs :
    answered(r) =>
       /\ "message" \in DOMAIN bodyOf(r)
       /\ ("error" \in DOMAIN bodyOf(r)) <=> (statusOf(r) # 200)
       /\ statusOf(r) = 200 <=> rows[r] # Undefined

C10_Witness ==
  \E r \in reqs :
    /\ answered(r)
    /\ statusOf(r) = 200
    /\ "error" \notin DOMAIN bodyOf(r)


\* ------------------------------------------------------------------------
\* Properties of the three pure functions (checked under PureSpec)
\* ------------------------------------------------------------------------

mapped == applied # "none"
projected == applied \in {"transformToChartData", "createResponseMessage"}
summarized == applied = "createResponseMessage"

\* C11: for every message text the result of mapMessageToQuery is one of
\* the 8 fixed SQL statements, so no part of the message is in the SQL.
C11_OneOfEightStatements ==
  mapped =>
    returnedQuery \in
      {"SELECT * FROM SNOWFLAKEHACKATHON.PUBLIC.MARKETING_CAMPAIGN WHERE roi > 50 ORDER BY roi DESC LIMIT 50;",
       "SELECT * FROM SNOWFLAKEHACKATHON.PUBLIC.MARKETING_CAMPAIGN ORDER BY conversion_rate DESC LIMIT 50;",
       "SELECT * FROM SNOWFLAKEHACKATHON.PUBLIC.MARKETING_CAMPAIGN ORDER BY acquisition_cost ASC LIMIT 50;",
       "SELECT * FROM SNOWFLAKEHACKATHON.PUBLIC.MARKETING_CAMPAIGN WHERE channel_used = 'Social Media' LIMIT 100;",
       "SELECT * FROM SNOWFLAKEHACKATHON.PUBLIC.MARKETING_CAMPAIGN WHERE channel_used = 'Email' LIMIT 100;",
       "SELECT * FROM SNOWFLAKEHACKATHON.PUBLIC.MARKETING_CAMPAIGN WHERE channel_used = 'Search' LIMIT 100;",
       "SELECT * FROM SNOWFLAKEHACKATHON.PUBLIC.MARKETING_CAMPAIGN ORDER BY date DESC LIMIT 50;",
       "SELECT * FROM SNOWFLAKEHACKATHON.PUBLIC.MARKETING_CAMPAIGN LIMIT 100;"}

\* A message that names a channel in mixed case and another keyword, mapped.
C11_Witness ==
  /\ mapped
  /\ givenMessage = joined(<<Phrase.Email, Phrase.MixedSocialMedia>>)
  /\ returnedQuery = SqlSocialMedia

\* The keyword rules in their priority order: the rules a lower-cased
\* message triggers, and the statement of rule i.
triggered(lowerMessage) ==
  LET mentions(word) == includes(lowerMessage, word) IN
  (IF mentions(Phrase.HighRoi) \/ mentions(Phrase.BestRoi) \/ mentions(Phrase.TopRoi)
   THEN {1} ELSE {})
    \cup (IF mentions(Phrase.Conversion) /\ (mentions(Phrase.High) \/ mentions(Phrase.Best))
          THEN {2} ELSE {})
    \cup (IF mentions(Phrase.Cost) /\ (mentions(Phrase.Low) \/ mentions(Phrase.Cheap))
          THEN {3} ELSE {})
    \cup (IF mentions(Phrase.SocialMedia) THEN {4} ELSE {})
    \cup (IF mentions(Phrase.Email) THEN {5} ELSE {})
    \cup (IF mentions(Phrase.Search) \/ mentions(Phrase.Google) THEN {6} ELSE {})
    \cup (IF mentions(Phrase.Recent) \/ mentions(Phrase.Latest) THEN {7} ELSE {})
statementOfRule ==
  <<SqlHighRoi, SqlConversion, SqlCost, SqlSocialMedia, SqlEmail, SqlSearch, SqlRecent>>

C13_EmptyRows ==
  /\ (projected /\ givenRows = <<>>) => returnedChart = Undefined
  /\ (summarized /\ givenRows = <<>>) =>
       returnedMessage = "I couldn't find any data matching your query. Please try a different question."

\* An empty row set summarized for a message that asks for a metric.
C13_Witness ==
  /\ summarized
  /\ givenRows = <<>>
  /\ givenMessage = joined(<<Phrase.Roi, Phrase.Channel>>)

\* C14: for every non-empty row set and every message the summary is a
\* non-empty text.
C14_SummaryNeverEmpty ==
  (summarized /\ givenRows # <<>>) => returnedMessage # ""

\* Rows without any metric or channel column, summarized for a message
\* that asks for the top campaign.
C14_Witness ==
  /\ summarized
  /\ givenRows = <<RowBare, RowNulls>>
  /\ givenMessage = Phrase.Top
  /\ returnedMessage # ""


\* The chart that was returned, when there is one.
charted == projected /\ returnedChart # Undefined
chart == returnedChart[1]
pieCharted == charted /\ chart.type = "pie"

\* C15: any chart returned, pie as well as bar, has at most 20 points and
\* as many labels as points.
C15_AtMostTwentyPoints ==
  charted =>
    /\ Len(chart.data) <= 20
    /\ Len(chart.labels) = Len(chart.data)

\* The label a row is counted under in a pie chart: its channel_used, or
\* "Unknown" when that is absent, null or empty.
channelLabel(row) ==
  LET c == get(row, "channel_used") IN
  IF c.t \in {"undef", "null"} \/ (c.t = "str" /\ c.s = "") THEN "Unknown"
  ELSE String(c)
channelLabels == [i \in 1..Len(givenRows) |-> channelLabel(givenRows[i])]

\* The sum of the y values of points whose y values are all numbers.
RECURSIVE sumOfY(_)
sumOfY(points) ==
  IF points = <<>> THEN 0
  ELSE points[1].y.n + sumOfY(Tail(points))

\* C16: in every pie chart the y values are numbers whose sum is the number
\* of input rows.
C16_PieCountsEveryRow ==
  pieCharted =>
    /\ \A i \in 1..Len(chart.data) : chart.data[i].y.t = "num"
    /\ sumOfY(chart.data) = Len(givenRows)

\* C17 as stated: for non-empty rows, every message that mentions "channel"
\* gets a pie chart, whatever else the message mentions.
C17_PieWheneverChannel ==
  (projected /\ givenRows # <<>>
     /\ includes(toLowerCase(givenMessage), Phrase.Channel))
    => pieCharted

\* The metric keywords the projector looks for before "channel".
MetricWords == {Phrase.Roi, Phrase.Conversion, Phrase.Cost, Phrase.Engagement}
onlyChannel ==
  /\ includes(toLowerCase(givenMessage), Phrase.Channel)
  /\ \A w \in MetricWords : ~includes(toLowerCase(givenMessage), w)

\* C17, amended: for non-empty rows, a message that mentions "channel" and
\* none of "roi", "conversion", "cost", "engagement" gets a pie chart whose
\* points are the channels of the rows; a message that mentions one of
\* those four gets no pie chart.
C17_PieWhenOnlyChannel ==
  (projected /\ givenRows # <<>>) =>
    /\ onlyChannel =>
         /\ pieCharted
         /\ \A i \in 1..Len(chart.data) :
              \E j \in 1..Len(givenRows) : chart.data[i].x = channelLabel(givenRows[j])
    /\ (\E w \in MetricWords : includes(toLowerCase(givenMessage), w)) => ~pieCharted

\* "Channel" in mixed case alone, with rows of two channels: a pie chart.
C17_Witness ==
  /\ pieCharted
  /\ givenMessage = Phrase.UpperChannel
  /\ givenRows = <<RowDisplay, RowVideo>>
  /\ Len(chart.data) = 2

\* C18: a pie chart has one point per distinct channel of the rows, in the
\* order the channels are first met, with y the number of rows of it.
C18_OnePointPerChannelInOrder ==
  pieCharted =>
    LET firstMet == distinct(channelLabels) IN
    /\ Len(chart.data) = Len(firstMet)
    /\ \A i \in 1..Len(firstMet) :
         /\ chart.data[i].x = firstMet[i]
         /\ chart.data[i].y =
              CNum(Cardinality({j \in 1..Len(givenRows) : channelLabels[j] = firstMet[i]}))

\* A message the summarizer treats as an ROI question: it mentions "roi" or
\* "return on investment" and does not ask for a count.
roiQuestion ==
  LET m == toLowerCase(givenMessage) IN
  /\ includes(m, Phrase.Roi) \/ includes(m, Phrase.ReturnOnInvestment)
  /\ ~includes(m, Phrase.HowMany)
  /\ ~includes(m, Phrase.Count)

\* A number of hundredths as a text with 2 decimals.
hundredths(h) ==
  LET abs == IF h < 0 THEN 0 - h ELSE h IN
  (IF h < 0 THEN "-" ELSE "") \o ToString(abs \div 100) \o "."
    \o (IF abs % 100 < 10 THEN "0" ELSE "") \o ToString(abs % 100)

\* The ROI summary of the values roi (a non-empty sequence of integers) over
\* rowCount rows: mean, maximum and minimum, where the mean is any number
\* of hundredths within half a hundredth of the quotient.
isRoiSummary(text, rowCount, roi) ==
  LET n == Len(roi)
      total == sumOf(roi)
      values == {roi[i] : i \in 1..n}
      highest == CHOOSE v \in values : \A w \in values : w <= v
      lowest == CHOOSE v \in values : \A w \in values : v <= w
      near(h) == LET d == 100 * total - h * n
                 IN 2 * (IF d < 0 THEN 0 - d ELSE d) <= n
  IN \E h \in (100 * lowest)..(100 * highest) :
       /\ near(h)
       /\ text = "Based on " \o ToString(rowCount) \o " campaigns:\n* Average ROI: "
                  \o hundredths(h) \o "%\n* Highest ROI: " \o hundredths(100 * highest)
                  \o "%\n* Lowest ROI: " \o hundredths(100 * lowest)
                  \o "%\n\nThe chart below visualizes the ROI trends."

allRoiNumbers ==
  givenRows # <<>> /\ \A i \in 1..Len(givenRows) : get(givenRows[i], "roi").t = "num"

\* C19: for an ROI question over rows whose roi values are all numbers the
\* summary reports their mean, maximum and minimum with 2 decimals and a
\* percent sign.
C19_RoiMeanMaxMin ==
  (summarized /\ roiQuestion /\ allRoiNumbers) =>
    isRoiSummary(returnedMessage, Len(givenRows),
                 [i \in 1..Len(givenRows) |-> get(givenRows[i], "roi").n])

\* Rows with roi 80, 20, 40 and "What's the average ROI?".
C19_Witness ==
  /\ summarized
  /\ givenMessage = MsgAverageRoi
  /\ givenRows = RowsScenarioA
  /\ returnedMessage = "Based on 3 campaigns:\n* Average ROI: 46.67%\n* Highest ROI: 80.00%\n* Lowest ROI: 20.00%\n\nThe chart below visualizes the ROI trends."

\* The rows whose roi is a number or the text of a number.
hasNumericRoi(row) ==
  LET c == get(row, "roi") IN
  \/ c.t = "num"
  \/ c.t = "str" /\ c.s # "" /\ ~Number(c).nan
numericRoi ==
  LET kept == SelectSeq(givenRows, hasNumericRoi)
  IN [i \in 1..Len(kept) |-> Number(get(kept[i], "roi")).v]

\* C20 (for the roi aggregate): rows whose roi is absent, null, empty or
\* not numeric are left out of mean, maximum and minimum, never counted
\* as zero.
C20_OnlyNumericValuesAggregated ==
  (summarized /\ roiQuestion /\ numericRoi # <<>>) =>
    isRoiSummary(returnedMessage, Len(givenRows), numericRoi)


\* A message that reaches the best/top/highest rule of the summarizer
\* whatever the rows are: it mentions one of the three words and none of
\* the keywords of the rules before it.
EarlierWords ==
  {Phrase.HowMany, Phrase.Count, Phrase.Roi, Phrase.ReturnOnInvestment,
   Phrase.Conversion, Phrase.Cost, Phrase.Engagement, Phrase.Channel, Phrase.Platform}
topQuestion ==
  LET m == toLowerCase(givenMessage) IN
  /\ includes(m, Phrase.Best) \/ includes(m, Phrase.Top) \/ includes(m, Phrase.Highest)
  /\ \A w \in EarlierWords : ~includes(m, w)

\* The campaign a row is shown as: its campaign_type, or its campaign_id
\* when campaign_type is absent.
campaignShown(row) ==
  IF get(row, "campaign_type").t \in {"undef", "null"}
  THEN String(get(row, "campaign_id"))
  ELSE String(get(row, "campaign_type"))

\* C21: for a best/top/highest question over rows of which some have a
\* numeric roi, the summary shows the first row, in input order, whose roi
\* is the maximum, with its campaign and its roi.
C21_TopIsFirstMaximum ==
  (summarized /\ topQuestion /\ \E i \in 1..Len(givenRows) : hasNumericRoi(givenRows[i])) =>
    LET roiOf(i) == Number(get(givenRows[i], "roi")).v
        numeric == {i \in 1..Len(givenRows) : hasNumericRoi(givenRows[i])}
        best == CHOOSE i \in numeric :
                  /\ \A j \in numeric : roiOf(j) <= roiOf(i)
                  /\ \A j \in numeric : roiOf(j) = roiOf(i) => i <= j
    IN returnedMessage =
         "Top performing campaign:\n* Campaign: " \o campaignShown(givenRows[best])
           \o "\n* ROI: " \o hundredths(100 * roiOf(best)) \o "%\n\nAnalyzed "
           \o ToString(Len(givenRows)) \o " campaigns. See the chart for comparison."

\* C22: every chart is a bar chart or a pie chart and the y of every point
\* is a number.
C22_BarOrPieNumericY ==
  charted =>
    /\ chart.type \in {"bar", "pie"}
    /\ \A i \in 1..Len(chart.data) : chart.data[i].y.t = "num"

\* ------------------------------------------------------------------------
\* Properties of the endpoint, continued (checked under Spec)
\* ------------------------------------------------------------------------

StageOrder ==
  <<"request.json", "checkMessage", "checkCredentials", "createConnection",
    "connect", "connected", "mapMessageToQuery", "execute", "destroy",
    "transformToChartData", "createResponseMessage">>
FailureSteps == {"catch", "connectFailed", "executeFailed", "throw"}
isStage(ev) == \E i \in 1..Len(StageOrder) : StageOrder[i] = ev
stagesOf(steps) == SelectSeq(steps, isStage)

C24_ReleaseOutcomeOnlyLogged ==
  [][\A r \in reqs :
       conn[r] = "destroying" =>
         /\ answered(r)
         /\ response'[r] = response[r]]_vars

\* A request answered 200 whose destroy then failed, which was logged.
C24_Witness ==
  \E r \in reqs :
    /\ conn[r] = "destroyFailed"
    /\ answered(r)
    /\ statusOf(r) = 200
    /\ Len(console[r]) > 0

\* ------------------------------------------------------------------------
\* Properties of the three pure functions, continued (checked under PureSpec)
\* ------------------------------------------------------------------------

\* The kind of narrative a summary is, told by how it begins.
startsWith(text, prefix) ==
  Len(text) >= Len(prefix) /\ SubSeq(text, 1, Len(prefix)) = prefix
narrativeKind(text) ==
  CASE startsWith(text, "I found ") -> "count"
    [] startsWith(text, "Based on ") -> "roi"
    [] startsWith(text, "Conversion rate analysis from ") -> "conversion"
    [] startsWith(text, "Cost analysis from ") -> "cost"
    [] startsWith(text, "Engagement analysis from ") -> "engagement"
    [] startsWith(text, "Channel analysis from ") -> "channel"
    [] startsWith(text, "Top performing campaign:") -> "top"
    [] startsWith(text, "I analyzed ") -> "default"
    [] OTHER -> "none"

\* Whether the rows have anything for a rule to aggregate: a metric column
\* has when some row's value is not a text that fails to parse (absent,
\* null and empty values are taken as 0); the channels have when some row
\* has a non-empty channel_used that is counted.
metricData(column) ==
  \E i \in 1..Len(givenRows) :
    LET c == get(givenRows[i], column) IN
    ~(c.t = "str" /\ c.s # "" /\ Number(c).nan)
channelData ==
  \E i \in 1..Len(givenRows) :
    LET c == get(givenRows[i], "channel_used") IN
    /\ c.t \notin {"undef", "null"}
    /\ ~(c.t = "str" /\ c.s = "")
    /\ ~(c.t = "num" /\ c.n = 0)
    /\ String(c) # "__proto__"

\* The kind of the first rule, in the summarizer's order, whose keyword the
\* message contains and for which withData holds.
firstRule(withData(_)) ==
  LET m == toLowerCase(givenMessage)
      has(w) == includes(m, w)
  IN IF has(Phrase.HowMany) \/ has(Phrase.Count) THEN "count"
     ELSE IF (has(Phrase.Roi) \/ has(Phrase.ReturnOnInvestment)) /\ withData("roi") THEN "roi"
     ELSE IF has(Phrase.Conversion) /\ withData("conversion") THEN "conversion"
     ELSE IF has(Phrase.Cost) /\ withData("cost") THEN "cost"
     ELSE IF has(Phrase.Engagement) /\ withData("engagement") THEN "engagement"
     ELSE IF (has(Phrase.Channel) \/ has(Phrase.Platform)) /\ withData("channel") THEN "channel"
     ELSE IF has(Phrase.Best) \/ has(Phrase.Top) \/ has(Phrase.Highest) THEN "top"
     ELSE "default"
always(kind) == TRUE
hasData(kind) ==
  CASE kind = "roi" -> metricData("roi")
    [] kind = "conversion" -> metricData("conversion_rate")
    [] kind = "cost" -> metricData("acquisition_cost")
    [] kind = "engagement" -> metricData("engagement_score")
    [] kind = "channel" -> channelData

\* C25 as stated: for non-empty rows the narrative kind is that of the
\* first rule whose keyword the message contains, whatever the rows are.
C25_KindByMessageAlone ==
  (summarized /\ givenRows # <<>>) =>
    narrativeKind(returnedMessage) = firstRule(always)

\* C25, amended: for non-empty rows the narrative kind is that of the first
\* rule whose keyword the message contains and whose aggregate has data in
\* the rows.
C25_KindByFirstRuleWithData ==
  (summarized /\ givenRows # <<>>) =>
    narrativeKind(returnedMessage) = firstRule(hasData)

\* An ROI question over rows whose roi values are all unparsable texts gets
\* the default narrative; one over rows without any roi column gets the ROI
\* narrative.
C25_Witness ==
  /\ summarized
  /\ givenMessage = Phrase.Roi
  /\ givenRows = <<RowTextRoi>>
  /\ narrativeKind(returnedMessage) = "default"

\* The metric column the projector selects for the given message, with
\* whether the message takes the pie path instead.
piePath ==
  /\ includes(toLowerCase(givenMessage), Phrase.Channel)
  /\ \A w \in MetricWords : ~includes(toLowerCase(givenMessage), w)
selectedColumn ==
  LET m == toLowerCase(givenMessage) IN
  IF includes(m, Phrase.Roi) THEN "roi"
  ELSE IF includes(m, Phrase.Conversion) THEN "conversion_rate"
  ELSE IF includes(m, Phrase.Cost) THEN "acquisition_cost"
  ELSE IF includes(m, Phrase.Engagement) THEN "engagement_score"
  ELSE "roi"

\* The chart is a bar chart whose y values are those of the column, an
\* unparsable or absent value being 0, for the first 20 rows.
barOver(column) ==
  /\ charted
  /\ chart.type = "bar"
  /\ Len(chart.data) = (IF Len(givenRows) < 20 THEN Len(givenRows) ELSE 20)
  /\ \A i \in 1..Len(chart.data) :
       LET v == Number(get(givenRows[i], column))
       IN chart.data[i].y = CNum(IF v.nan THEN 0 ELSE v.v)

\* The columns of the first row, in order, that satisfy a condition.
firstRowColumns(Cond(_)) == SelectSeq(keysOf(givenRows[1]), Cond)
numericInEveryRow(column) ==
  \A i \in 1..Len(givenRows) : get(givenRows[i], column).t = "num"
numericInFirstRow(column) == get(givenRows[1], column).t = "num"

\* The chart the non-pie path gives when the selected column is used if
\* the first row has it, and otherwise the first of the candidate columns.
fallsBackTo(candidates) ==
  IF hasKey(givenRows[1], selectedColumn) THEN barOver(selectedColumn)
  ELSE IF candidates # <<>> THEN barOver(candidates[1])
  ELSE projected /\ returnedChart = Undefined

\* C26 as stated: when the selected column is absent, the y-column is the
\* first column that is numeric in every row, and there is no chart exactly
\* when there is no such column.
C26_FallbackByWholeRowSet ==
  (projected /\ givenRows # <<>> /\ ~piePath) =>
    fallsBackTo(firstRowColumns(numericInEveryRow))

\* C26, amended: when the first row lacks the selected column, the y-column
\* is the first column of the first row whose value in that row is a
\* number, and there is no chart exactly when the first row has none; a
\* selected column the first row has is always used.
C26_FallbackByFirstRow ==
  (projected /\ givenRows # <<>> /\ ~piePath) =>
    fallsBackTo(firstRowColumns(numericInFirstRow))

\* A cost question over rows without acquisition_cost: the first row's
\* first number column, roi, is charted although the second row's roi is
\* a text.
C26_Witness ==
  /\ projected
  /\ givenMessage = Phrase.Cost
  /\ givenRows = <<RowInherited, RowTextRoi>>
  /\ barOver("roi")
  /\ chart.data[2].y = CNum(0)

\* The column a metric narrative is about.
columnOfKind ==
  "roi" :> "roi" @@ "conversion" :> "conversion_rate" @@
  "cost" :> "acquisition_cost" @@ "engagement" :> "engagement_score"

\* C27: when the summary is a metric narrative, the chart is a bar chart and
\* some row has that metric's column, the chart's y values are those of
\* that column.
C27_SummaryAndChartAgree ==
  LET kind == narrativeKind(returnedMessage) IN
  (/\ summarized
   /\ givenRows # <<>>
   /\ kind \in DOMAIN columnOfKind
   /\ charted
   /\ chart.type = "bar"
   /\ \E i \in 1..Len(givenRows) : hasKey(givenRows[i], columnOfKind[kind]))
    => barOver(columnOfKind[kind])

\* ------------------------------------------------------------------------
\* Properties of concurrent requests (checked under ConcurrentSpec)
\* ------------------------------------------------------------------------

\* Everything a request's handler and callbacks hold.
own(r) ==
  <<body[r], pc[r], message[r], conn[r], config[r], sql[r], rows[r],
    response[r], log[r], console[r]>>

\* What a request has is what it would have alone: a connection only if it
\* created one, destroy only after its own createConnection and execute,
\* its statement chosen from its own message, and a 200 response made of
\* its own message and its own rows.
ownOutcome(r) ==
  /\ (conn[r] # "none") => took(log[r], "createConnection")
  /\ took(log[r], "destroy") =>
       /\ before(log[r], "createConnection", "destroy")
       /\ before(log[r], "execute", "destroy")
  /\ sql[r] # <<>> => sql[r] = <<mapMessageToQuery(message[r][1].s)>>
  /\ (answered(r) /\ statusOf(r) = 200) =>
       /\ rows[r] # Undefined
       /\ response[r][1] =
            NextResponseJson(
              [message |-> Def(createResponseMessage(rows[r][1], message[r][1].s)),
               chartData |-> transformToChartData(rows[r][1], message[r][1].s)], 200)
  /\ (answered(r) /\ statusOf(r) # 200) => rows[r] = Undefined

\* C28: in every interleaving a step changes what one request holds and
\* nothing of any other request, the environment is never written, and
\* each request's connection, statement and response come from its own
\* message and its own result.
C28_RequestsDoNotInterfere ==
  /\ [](\A r \in reqs : ownOutcome(r))
  /\ [][/\ env' = env
        /\ \A r \in reqs : \A q \in reqs \ {r} :
             own(r)' # own(r) => own(q)' = own(q)]_vars

\* Two requests with different messages, interleaved, each answered 200
\* with its own summary while the other's destroy is still outstanding.
C28_Witness ==
  \E r \in reqs : \E q \in reqs \ {r} :
    /\ answered(r) /\ statusOf(r) = 200
    /\ answered(q) /\ statusOf(q) = 200
    /\ message[r] # message[q]
    /\ bodyOf(r).message # bodyOf(q).message
    /\ before(log[r], "connect", "resolve")
    /\ conn[q] = "destroying"

\* ------------------------------------------------------------------------
\* Properties of the chat UI (checked under UiSpec)
\* ------------------------------------------------------------------------

\* The last fetch ended with a response of the chat endpoint that carries
\* an error: status 400 or 500 and an `error` field.
settledWithError ==
  /\ settled # Undefined
  /\ settled[1].kind = "response"
  /\ settled[1].status \in {400, 500}
  /\ settled[1].json # Undefined
  /\ "error" \in DOMAIN settled[1].json[1]

\* C29: when the endpoint has answered a send with an error response, the
\* last turn is an assistant turn whose content shows the response's
\* `error` text.
C29_ErrorTextShown ==
  settledWithError =>
    /\ messages # <<>>
    /\ messages[Len(messages)].role = "assistant"
    /\ textIncludes(messages[Len(messages)].content, settled[1].json[1].error)

blankInput == trim(inputValue) = ""

====
